---- MODULE Spec2Model ----
\* Verification model of the Xen gang scheduler (xen/common/sched_gang.c):
\* the per-CPU local schedulers, the schedule decision, and the global
\* adjustment (putinfo) with its two-barrier cross-call protocol.
\*
\* Time is counted in model units of a quarter of GANG_FINEST_TIME_GRAIN
\* (0.25 ms with the default sched_ratelimit_us).  The order of the real
\* constants is kept: GANG_FINEST_TIME_GRAIN_IN_US (a number of microseconds
\* that the validation compares with nanosecond values) < MARGIN <
\* GANG_FINEST_TIME_GRAIN < __adj_time_upper_bound < INFINITY.
EXTENDS Integers, Sequences, FiniteSets, TLC

\* ---------------------------------------------------------------------------
\* Program constants
\* ---------------------------------------------------------------------------
NR_CPUS == 8
GANG_FINEST_TIME_GRAIN_IN_US == 1
GANG_FINEST_TIME_GRAIN == 4
MARGIN == 2
MIN_NEGATIVE_DIFF == -2
INFINITY == 100000
DEFAULT_CPU_RESERV_4_BE_DOMAINS == 10
DEFAULT_PERIOD_4_BE_DOMAINS == 400
DEFAULT_ADJ_TIME_UPPER_BOUND == 400
GANG_SCHED_POLICY_NOT_SET == 0
GANG_NO_MUXING == 1
GANG_TIME_TRIG_MUXING == 2
GANG_EVENT_TRIG_MUXING == 3
GANG_BEST_EFFORT_MUXING == 4
NUM_OF_GANG_SCHED_POLICIES == 5

\* ---------------------------------------------------------------------------
\* Bounds of the exploration
\* ---------------------------------------------------------------------------
\* number of timer-driven advances of the clock
MaxTicks == 3
\* number of gang_adjust_global calls
MaxAdjust == 2
\* number of perturbing events (tasklet, yield, late timer, VCPU removal)
MaxEvents == 1

\* ---------------------------------------------------------------------------
\* The machine: CPUs, the gang-scheduled pool, the domains in the pool
\* ---------------------------------------------------------------------------
CPUs == 0 .. (NR_CPUS - 1)
\* CPU 0 stays in Pool-0 with DOM0; CPUs 1 to 3 form the gang-scheduling
\* pool; the other CPU ids of the NR_CPUS-sized arrays are not used.
PoolCpus == {1, 2, 3}
\* Domains that live in the gang-scheduling pool: domain 1 has one VCPU,
\* domains 2 and 3 have two.
DomIds == {1, 2, 3}
VcpuIds(d) == IF d = 1 THEN {0} ELSE {0, 1}
Vcpus == { dv \in DomIds \X {0, 1} : dv[2] \in VcpuIds(dv[1]) }
NULL == <<>>
IDLE == << -1, -1 >>
NOCOHORT == -1
NOVCPU == -1
\* A ticket is identified by the local scheduler that allocated it and its
\* domain (every local scheduler keeps at most one ticket per domain id).
TicketIds == PoolCpus \X DomIds

\* gang_alloc_domdata: a zeroed record with policy NOT_SET and cohort -1.
gang_alloc_domdata ==
    [ type |-> GANG_SCHED_POLICY_NOT_SET, cpumask |-> {}, from |-> 0,
      period |-> 0, active_time |-> 0, cohort |-> NOCOHORT ]

\* gang_alloc_vdata: default time values of a fresh ticket.
gang_alloc_vdata ==
    [ earliest_start_time |-> INFINITY, deadline |-> INFINITY,
      remaining_time |-> 0, activated_at |-> INFINITY, yield |-> FALSE,
      vcpu |-> NOVCPU ]

\* ---------------------------------------------------------------------------
\* Pure helpers
\* ---------------------------------------------------------------------------
MIN(a, b) == IF a < b THEN a ELSE b
MAX(a, b) == IF a > b THEN a ELSE b
SetMin(S) == CHOOSE x \in S : \A y \in S : x <= y
SetMax(S) == CHOOSE x \in S : \A y \in S : x >= y

\* The element of a singleton set.  A value that is used several times is
\* bound through a singleton set, { f(x) : x \in {e} }, so that e is computed
\* once.
The(S) == CHOOSE x \in S : TRUE

\* for_each_domain_in_cpupool walks the domain list, which Xen keeps ordered
\* by domain id.
RECURSIVE SeqOfSet(_)
SeqOfSet(S) ==
    IF S = {} THEN << >>
    ELSE LET m == SetMin(S) IN << m >> \o SeqOfSet(S \ {m})

\* ---------------------------------------------------------------------------
\* Cohorts (sched_gang.c, __update_cohorts .. __populate_cohorts_and_muxgroups)
\* ---------------------------------------------------------------------------
\* The merge loop of __update_cohorts: the first pair (i, j), i < j, of
\* overlapping cohorts is merged into i, the tail is shifted down by one
\* (the last slot keeps its old content) and the scan restarts.
RECURSIVE MergeCohorts(_, _)
MergeCohorts(coh, num) ==
    LET P == { p \in (0 .. (num - 1)) \X (0 .. (num - 1)) :
                  p[1] < p[2] /\ coh[p[1]] \cap coh[p[2]] # {} }
    IN  IF P = {} THEN [cohorts |-> coh, num |-> num]
        ELSE LET i == SetMin({ p[1] : p \in P })
                 j == SetMin({ p[2] : p \in { q \in P : q[1] = i } })
                 merged == [k \in CPUs |->
                              IF k = i THEN coh[i] \cup coh[j]
                              ELSE IF k >= j /\ k < num - 1 THEN coh[k + 1]
                              ELSE coh[k]]
             IN  The({ MergeCohorts(m, num - 1) : m \in {merged} })

\* __update_cohorts(di, __cohorts, __num_of_cohorts)
__update_cohorts(mask, coh, num) ==
    LET I == { n \in 0 .. (num - 1) : mask \cap coh[n] # {} }
    IN  IF I # {}
        THEN LET n == SetMin(I)
             IN  The({ MergeCohorts(m, num) :
                         m \in {[coh EXCEPT ![n] = coh[n] \cup mask]} })
        ELSE The({ MergeCohorts(m, num + 1) :
                      m \in {[coh EXCEPT ![num] = coh[num] \cup mask]} })

\* The loop of __populate_cohorts_and_muxgroups that feeds every domain of
\* arr to __update_cohorts, starting from the zeroed temporary array.
RECURSIVE CohortsOf(_, _)
CohortsOf(arr, n) ==
    IF n = 0 THEN [cohorts |-> [k \in CPUs |-> {}], num |-> 0]
    ELSE The({ __update_cohorts(arr[n].cpumask, prev.cohorts, prev.num) :
                  prev \in {CohortsOf(arr, n - 1)} })

\* __set_cohort_in_domain: the first cohort that contains the whole mask
\* (NOCOHORT stands for the BUG_ON(found == FALSE) case).
__set_cohort_in_domain(mask, coh, num) ==
    LET F == { nc \in 0 .. (num - 1) : mask \subseteq coh[nc] }
    IN  IF F = {} THEN NOCOHORT ELSE SetMin(F)

\* One iteration of the for_each_cpu loop of __add_dom_to_muxgroups for the
\* CPU cpu_id of the domain's mask; st carries the temporary arrays and the
\* pending CPUs.  A count above NR_CPUS stands for the BUG_ON that follows
\* the increment of the count: nothing is done after it.
MuxgroupStep(mask, cpu_id, st) ==
    LET mid == st.cpu_2_muxgroup[cpu_id]
        nid == st.num
    IN  IF cpu_id \notin st.pending \/ nid > NR_CPUS THEN st
        ELSE IF mid >= 0
        THEN LET the == st.muxgroups[mid]
             IN  IF mask \subseteq the
                 THEN [st EXCEPT !.pending = @ \ the]
                 ELSE IF nid = NR_CPUS THEN [st EXCEPT !.num = nid + 1]
                 ELSE LET new == the \cap mask
                      IN  [st EXCEPT
                             !.pending = @ \ the,
                             !.num = nid + 1,
                             !.muxgroups = [@ EXCEPT ![nid] = new,
                                                     ![mid] = the \ mask],
                             !.cpu_2_muxgroup =
                                 [i \in CPUs |-> IF i \in new THEN nid ELSE @[i]]]
        ELSE IF nid = NR_CPUS THEN [st EXCEPT !.num = nid + 1]
        ELSE LET new == (st.muxgroups[nid]
                            \cup { i \in CPUs : st.cpu_2_muxgroup[i] < 0 })
                          \cap mask
             IN  [st EXCEPT
                    !.pending = @ \ new,
                    !.num = nid + 1,
                    !.muxgroups = [@ EXCEPT ![nid] = new],
                    !.cpu_2_muxgroup =
                        [i \in CPUs |-> IF i \in new THEN nid ELSE @[i]]]

RECURSIVE MuxgroupLoop(_, _, _, _)
MuxgroupLoop(mask, cpus, n, st) ==
    IF n = 0 THEN st
    ELSE The({ MuxgroupStep(mask, cpus[n], prev) :
                  prev \in {MuxgroupLoop(mask, cpus, n - 1, st)} })

\* __add_dom_to_muxgroups(di, __cpu_2_muxgroup, __muxgroups, __num_of_muxgroups)
__add_dom_to_muxgroups(mask, st) ==
    LET cpus == SeqOfSet(mask)
    IN  MuxgroupLoop(mask, cpus, Len(cpus), [st EXCEPT !.pending = mask])

RECURSIVE MuxgroupsOf(_, _)
MuxgroupsOf(arr, n) ==
    IF n = 0
    THEN [ muxgroups |-> [k \in CPUs |-> {}],
           cpu_2_muxgroup |-> [c \in CPUs |-> NOCOHORT],
           num |-> 0, pending |-> {} ]
    ELSE The({ __add_dom_to_muxgroups(arr[n].cpumask, prev) :
                  prev \in {MuxgroupsOf(arr, n - 1)} })

\* __populate_cohorts_and_muxgroups: the temporary topology and the array
\* with every domain's cohort filled in.
PopulateFrom(arr, cc, mm) ==
    LET c2c == [c \in CPUs |->
                  LET K == { k \in 0 .. (cc.num - 1) : c \in cc.cohorts[k] }
                  IN  IF K = {} THEN NOCOHORT ELSE SetMax(K)]
        arr2 == [i \in 1 .. Len(arr) |->
                  [arr[i] EXCEPT !.cohort =
                      __set_cohort_in_domain(arr[i].cpumask, cc.cohorts, cc.num)]]
        be == [k \in CPUs |->
                  Cardinality({ i \in 1 .. Len(arr) :
                      /\ arr[i].type = GANG_BEST_EFFORT_MUXING
                      /\ arr2[i].cohort = k })]
    IN  [ cohorts |-> cc.cohorts, num_of_cohorts |-> cc.num,
          cpu_2_cohort |-> c2c, be_doms_in_cohort |-> be,
          num_of_muxgroups |-> mm.num, arr |-> arr2 ]

__populate_cohorts(arr) ==
    The({ PopulateFrom(arr, cc, mm) : cc \in {CohortsOf(arr, Len(arr))},
                                      mm \in {MuxgroupsOf(arr, Len(arr))} })

\* ---------------------------------------------------------------------------
\* putinfo requests and their validation (gang_adjust_global)
\* ---------------------------------------------------------------------------
\* What the host knows about a domain id: domains 1 to 3 live in the
\* gang-scheduling pool, domain 4 exists in another pool, others do not exist.
\* A domain whose destruction has begun has left the domain list (gone).
get_domain_by_id(domid, gone) == domid \in (DomIds \ gone) \cup {4}
InRightPool(domid) == domid \in DomIds
\* __count_vcpus_in_domain and dom->max_vcpus
__count_vcpus_in_domain(domid) == Cardinality(VcpuIds(domid))
max_vcpus(domid) == Cardinality(VcpuIds(domid))

\* xenctl_bitmap_to_cpumask keeps the bits of the bitmap below nr_cpu_ids.
xenctl_bitmap_to_cpumask(cpumap) == cpumap \cap CPUs

Entry(d, m, t, f, p, a) ==
    [ domid |-> d, cpumap |-> m, type |-> t, from |-> f, period |-> p,
      active_time |-> a ]
TT(d, m) == Entry(d, m, GANG_TIME_TRIG_MUXING, 0, 16, 8)
TTbig(d, m) == Entry(d, m, GANG_TIME_TRIG_MUXING, 0, 16, 12)
ET(d, m) == Entry(d, m, GANG_EVENT_TRIG_MUXING, 0, 16, 8)
BE(d, m) == Entry(d, m, GANG_BEST_EFFORT_MUXING, 0, 0, 0)
EX(d, m) == Entry(d, m, GANG_NO_MUXING, 0, 0, 0)

\* Requests that pass the validation of gang_adjust_global.
GoodRequests ==
    { << TT(1, {1}), TT(2, {1, 2}), TT(3, {2, 3}) >>,
      << EX(1, {2}), TT(2, {1, 3}), TT(3, {1, 3}) >>,
      << TT(1, {2}), TTbig(2, {2, 3}), TTbig(3, {2, 3}) >>,
      << EX(1, {1}), TT(2, {1, 2}), TT(3, {2, 3}) >>,
      << EX(1, {1}), EX(2, {1, 2}), EX(3, {2, 3}) >>,
      << BE(1, {1}), BE(2, {1, 2}), ET(3, {2, 3}) >>,
      << TT(2, {2, 3}) >>,
      << TT(2, {1, 2}), TT(3, {1, 2}) >> }

\* Requests with one defect each.
BadRequests ==
    { << >>,
      << TT(2, {1, 2}), TT(2, {2, 3}) >>,
      << TT(0, {1, 2}) >>,
      << TT(5, {1, 2}) >>,
      << TT(4, {1, 2}) >>,
      << TT(2, {0, 1}) >>,
      << TT(2, {1}) >>,
      << Entry(2, {1, 2}, GANG_SCHED_POLICY_NOT_SET, 0, 16, 8) >>,
      << Entry(2, {1, 2}, NUM_OF_GANG_SCHED_POLICIES, 0, 16, 8) >>,
      << Entry(2, {1, 2}, GANG_TIME_TRIG_MUXING, 0, 0, 0) >>,
      << TT(3, {2, 3}), Entry(2, {1, 2}, GANG_EVENT_TRIG_MUXING, 0, 8, 16) >> }

Requests == GoodRequests \cup BadRequests

VALIDATE_GANG_SCHED_POLICY_TYPE(t) == 0 < t /\ t < NUM_OF_GANG_SCHED_POLICIES

\* __validate_tt_muxing_params and __validate_et_muxing_params (same body)
__validate_tt_muxing_params(e) ==
    /\ ~ (e.period < GANG_FINEST_TIME_GRAIN_IN_US)
    /\ ~ (e.period >= INFINITY)
    /\ ~ (e.active_time < GANG_FINEST_TIME_GRAIN_IN_US)
    /\ ~ (e.active_time >= INFINITY)
    /\ ~ (e.period < e.active_time)

__validate_gang_sched_policy(e) ==
    CASE e.type = GANG_NO_MUXING -> TRUE
      [] e.type = GANG_TIME_TRIG_MUXING -> __validate_tt_muxing_params(e)
      [] e.type = GANG_EVENT_TRIG_MUXING -> __validate_tt_muxing_params(e)
      [] e.type = GANG_BEST_EFFORT_MUXING -> TRUE
      [] OTHER -> FALSE

\* The per-entry checks of gang_adjust_global, in the order of the code.
ValidEntry(e, gone) ==
    /\ ~ (e.domid <= 0)
    /\ get_domain_by_id(e.domid, gone)
    /\ InRightPool(e.domid)
    /\ ~ (__count_vcpus_in_domain(e.domid) > Cardinality(PoolCpus))
    /\ ~ (max_vcpus(e.domid) > Cardinality(PoolCpus))
    /\ __count_vcpus_in_domain(e.domid) = max_vcpus(e.domid)
    /\ xenctl_bitmap_to_cpumask(e.cpumap) \subseteq PoolCpus
    /\ __count_vcpus_in_domain(e.domid)
          = Cardinality(xenctl_bitmap_to_cpumask(e.cpumap))
    /\ VALIDATE_GANG_SCHED_POLICY_TYPE(e.type)
    /\ __validate_gang_sched_policy(e)

\* The checks on the whole request: number of entries, duplicates, entries.
ValidRequest(req, gone) ==
    /\ ~ (Len(req) < 1)
    /\ \A e, j \in 1 .. Len(req) : e < j => req[e].domid # req[j].domid
    /\ \A e \in 1 .. Len(req) : ValidEntry(req[e], gone)

\* ---------------------------------------------------------------------------
\* The new configuration array (gang_adjust_global, putinfo branch)
\* ---------------------------------------------------------------------------
\* __get_all_domain_infos: a copy of the canonical record of every domain of
\* the pool, with the cohort reset to -1.
__get_all_domain_infos(di, gone) ==
    LET ids == SeqOfSet(DomIds \ gone)
    IN  [i \in 1 .. Len(ids) |->
            [ domid |-> ids[i], type |-> di[ids[i]].type,
              cpumask |-> di[ids[i]].cpumask, from |-> di[ids[i]].from,
              period |-> di[ids[i]].period,
              active_time |-> di[ids[i]].active_time, cohort |-> NOCOHORT ]]

\* __update_domain_infos: overlays the entries of the request on the copy.
RECURSIVE __update_domain_infos(_, _, _)
__update_domain_infos(infos, req, n) ==
    IF n = 0 THEN infos
    ELSE LET e == req[n]
             j(prev) == SetMin({ k \in 1 .. Len(prev) : prev[k].domid = e.domid })
         IN  The({ [prev EXCEPT ![j(prev)] =
                      [ domid |-> e.domid, type |-> e.type,
                        cpumask |-> xenctl_bitmap_to_cpumask(e.cpumap),
                        from |-> e.from, period |-> e.period,
                        active_time |-> e.active_time, cohort |-> NOCOHORT ]] :
                   prev \in {__update_domain_infos(infos, req, n - 1)} })

\* __sort_domain_infos: the restarting bubble sort on the policy type.
RECURSIVE __sort_domain_infos(_)
__sort_domain_infos(arr) ==
    LET I == { i \in 1 .. (Len(arr) - 1) : arr[i].type > arr[i + 1].type }
    IN  IF I = {} THEN arr
        ELSE LET i == SetMin(I)
             IN  The({ __sort_domain_infos(a) :
                         a \in {[arr EXCEPT ![i] = arr[i + 1],
                                            ![i + 1] = arr[i]]} })

\* __validate_resource_allocation: sorts the array; the schedulability test
\* is a TODO in the source and the function returns TRUE.
__validate_resource_allocation(arr) == TRUE

\* The array and temporary topology handed to __smp_adjust_and_pause.
NewConfiguration(di, req, gone) ==
    The({ __populate_cohorts(arr) :
            arr \in { __sort_domain_infos(a) :
                        a \in { __update_domain_infos(i, req, Len(req)) :
                                  i \in {__get_all_domain_infos(di, gone)} } } })

\* ---------------------------------------------------------------------------
\* Rebuild of one local scheduler (__update_local_sched_v0)
\* ---------------------------------------------------------------------------
__adj_time_upper_bound == DEFAULT_ADJ_TIME_UPPER_BOUND
__period_4_be_doms == DEFAULT_PERIOD_4_BE_DOMAINS
__quantum_4_be_doms ==
    (DEFAULT_PERIOD_4_BE_DOMAINS * DEFAULT_CPU_RESERV_4_BE_DOMAINS) \div 100

\* s_time_t is a signed 64-bit integer whose largest value is STIME_MAX
\* (INFINITY); the result of an operation that leaves the range is reduced
\* to the range.
S64(x) == ((x + INFINITY + 1) % (2 * (INFINITY + 1))) - (INFINITY + 1)
\* Division and remainder of C: the quotient is truncated towards zero.
CDiv(a, b) == IF a >= 0 THEN a \div b ELSE - ((- a) \div b)
CMod(a, b) == a - (b * CDiv(a, b))

__adjust_activation_time(start_at, actv_time, period) ==
    IF actv_time < start_at
    THEN LET diff == S64(start_at - actv_time)
             k == IF CMod(diff, period) # 0 THEN S64(CDiv(diff, period) + 1)
                  ELSE CDiv(diff, period)
         IN  S64(actv_time + S64(k * period))
    ELSE actv_time

\* Some operation of __adjust_activation_time leaves the range of s_time_t.
AdjustOverflows(start_at, actv_time, period) ==
    /\ actv_time < start_at
    /\ LET diff == start_at - actv_time
           k == IF diff % period # 0 THEN (diff \div period) + 1
                ELSE diff \div period
           InRange(x) == - (INFINITY + 1) <= x /\ x <= INFINITY
       IN  ~ (InRange(diff) /\ InRange(k * period)
                /\ InRange(actv_time + (k * period)))

will_resume_at(now) ==
    (((now + __adj_time_upper_bound) \div GANG_FINEST_TIME_GRAIN) + 1)
        * GANG_FINEST_TIME_GRAIN

\* The time values __update_local_sched_v0 seeds a fresh ticket with, for
\* the n-th best-effort domain of the loop where that matters.
SeedTicket(e, now, n) ==
    LET wra == will_resume_at(now)
        est == CASE e.type = GANG_NO_MUXING -> MAX(e.from, wra)
                 [] e.type \in {GANG_TIME_TRIG_MUXING, GANG_EVENT_TRIG_MUXING}
                      -> __adjust_activation_time(wra, e.from, e.period)
                 [] OTHER
                      -> __adjust_activation_time(wra, e.from, __period_4_be_doms)
    IN  CASE e.type = GANG_NO_MUXING ->
               [gang_alloc_vdata EXCEPT !.remaining_time = INFINITY,
                    !.earliest_start_time = est, !.deadline = INFINITY]
          [] e.type \in {GANG_TIME_TRIG_MUXING, GANG_EVENT_TRIG_MUXING} ->
               [gang_alloc_vdata EXCEPT !.remaining_time = e.active_time,
                    !.earliest_start_time = est, !.deadline = est + e.period]
          [] e.type = GANG_BEST_EFFORT_MUXING ->
               [gang_alloc_vdata EXCEPT !.remaining_time = __quantum_4_be_doms,
                    !.earliest_start_time = est,
                    !.deadline = est + (n * __period_4_be_doms)]
          [] OTHER -> gang_alloc_vdata

\* Mutant of RebuildStep: a domain of the cohort that has no CPU in common
\* with CPU c gets no ticket on it.
RebuildStep_touching_only(c, e, st, now, designated, c2c, bedoms, proc) ==
    LET di2 == IF c = designated
               THEN [st.di EXCEPT ![e.domid] =
                       [ type |-> e.type, cpumask |-> e.cpumask,
                         from |-> e.from, period |-> e.period,
                         active_time |-> e.active_time, cohort |-> e.cohort ]]
               ELSE st.di
        vcpu_found == \E v \in VcpuIds(e.domid) : proc[<< e.domid, v >>] = c
        dom_got_this_cpu == c \in e.cpumask
        vcpu == IF vcpu_found /\ dom_got_this_cpu
                THEN SetMin({ v \in VcpuIds(e.domid) : proc[<< e.domid, v >>] = c })
                ELSE NOVCPU
        nonmux == st.nonmux \/ e.type = GANG_NO_MUXING
        mux == st.mux \/ e.type # GANG_NO_MUXING
        n == IF e.type = GANG_BEST_EFFORT_MUXING THEN st.be + 1 ELSE st.be
        tid == << c, e.domid >>
    IN  IF st.panic # "no" THEN st
        ELSE IF c2c[c] # e.cohort \/ ~ dom_got_this_cpu
             THEN [st EXCEPT !.di = di2]
        ELSE IF dom_got_this_cpu # vcpu_found
             THEN [st EXCEPT !.di = di2, !.panic = "vcpu_not_on_cpu"]
        ELSE IF nonmux /\ mux
             THEN [st EXCEPT !.di = di2, !.panic = "non_muxed_not_alone",
                             !.live = @ \cup {tid}, !.wait = @ \cup {tid},
                             !.nonmux = nonmux, !.mux = mux]
        ELSE IF e.type = GANG_BEST_EFFORT_MUXING /\ bedoms[c2c[c]] <= 0
             THEN [st EXCEPT !.di = di2, !.panic = "no_be_doms_in_cohort",
                             !.live = @ \cup {tid}]
        ELSE [st EXCEPT !.di = di2, !.nonmux = nonmux, !.mux = mux, !.be = n,
                        !.live = @ \cup {tid},
                        !.tk = [@ EXCEPT ![tid] =
                                  [SeedTicket(e, now, n) EXCEPT !.vcpu = vcpu]],
                        !.priv = IF dom_got_this_cpu
                                 THEN [@ EXCEPT ![<< e.domid, vcpu >>] = tid]
                                 ELSE @,
                        !.actv = IF VALIDATE_GANG_SCHED_POLICY_TYPE(e.type)
                                 THEN @ \cup {tid} ELSE @]

\* One iteration of the "for each domain" loop of __update_local_sched_v0 on
\* CPU c.  st accumulates the local scheduler under construction; a BUG_ON
\* that fires is recorded in st.panic and stops the loop.
RebuildStep(c, e, st, now, designated, c2c, bedoms, proc) ==
    LET di2 == IF c = designated
               THEN [st.di EXCEPT ![e.domid] =
                       [ type |-> e.type, cpumask |-> e.cpumask,
                         from |-> e.from, period |-> e.period,
                         active_time |-> e.active_time, cohort |-> e.cohort ]]
               ELSE st.di
        vcpu_found == \E v \in VcpuIds(e.domid) : proc[<< e.domid, v >>] = c
        dom_got_this_cpu == c \in e.cpumask
        vcpu == IF vcpu_found /\ dom_got_this_cpu
                THEN SetMin({ v \in VcpuIds(e.domid) : proc[<< e.domid, v >>] = c })
                ELSE NOVCPU
        nonmux == st.nonmux \/ e.type = GANG_NO_MUXING
        mux == st.mux \/ e.type # GANG_NO_MUXING
        n == IF e.type = GANG_BEST_EFFORT_MUXING THEN st.be + 1 ELSE st.be
        tid == << c, e.domid >>
    IN  IF st.panic # "no" THEN st
        ELSE IF c2c[c] # e.cohort THEN [st EXCEPT !.di = di2]
        ELSE IF dom_got_this_cpu # vcpu_found
             THEN [st EXCEPT !.di = di2, !.panic = "vcpu_not_on_cpu"]
        ELSE IF nonmux /\ mux
             THEN [st EXCEPT !.di = di2, !.panic = "non_muxed_not_alone",
                             !.live = @ \cup {tid}, !.wait = @ \cup {tid},
                             !.nonmux = nonmux, !.mux = mux]
        ELSE IF e.type = GANG_BEST_EFFORT_MUXING /\ bedoms[c2c[c]] <= 0
             THEN [st EXCEPT !.di = di2, !.panic = "no_be_doms_in_cohort",
                             !.live = @ \cup {tid}]
        ELSE [st EXCEPT !.di = di2, !.nonmux = nonmux, !.mux = mux, !.be = n,
                        !.live = @ \cup {tid},
                        !.tk = [@ EXCEPT ![tid] =
                                  [SeedTicket(e, now, n) EXCEPT !.vcpu = vcpu]],
                        !.priv = IF dom_got_this_cpu
                                 THEN [@ EXCEPT ![<< e.domid, vcpu >>] = tid]
                                 ELSE @,
                        !.actv = IF VALIDATE_GANG_SCHED_POLICY_TYPE(e.type)
                                 THEN @ \cup {tid} ELSE @]

RECURSIVE RebuildLoop(_, _, _, _, _, _, _, _, _)
RebuildLoop(c, arr, l, st, now, designated, c2c, bedoms, proc) ==
    IF l = 0 THEN st
    ELSE The({ RebuildStep(c, arr[l], prev, now, designated, c2c, bedoms, proc) :
                  prev \in {RebuildLoop(c, arr, l - 1, st, now, designated,
                                        c2c, bedoms, proc)} })

\* ---------------------------------------------------------------------------
\* The schedule decision (gang_do_schedule and its helpers)
\* ---------------------------------------------------------------------------
\* __cmp_tckt_deadlines / __cmp_tckt_rel_times: the head of a queue is the
\* ticket with the least (key, domain id).
HeadBy(Q, key(_)) ==
    CHOOSE t \in Q : \A u \in Q :
        \/ key(t) < key(u)
        \/ (key(t) = key(u) /\ t[2] <= u[2])

\* Mutant of __update_times_in_ticket: the time spent is not taken off the
\* remaining time of a ticket that is not re-armed.
__update_times_in_ticket_keeps_budget(t, di, now, bedoms) ==
    LET diff0 == now - t.activated_at
        diff == IF diff0 < 0 THEN 0 ELSE diff0
        rem == t.remaining_time - diff
        floor_now == (now \div GANG_FINEST_TIME_GRAIN) * GANG_FINEST_TIME_GRAIN
    IN  CASE di.type = GANG_NO_MUXING -> t
          [] di.type = GANG_TIME_TRIG_MUXING ->
               IF rem < MARGIN
               THEN [t EXCEPT !.earliest_start_time = @ + di.period,
                              !.deadline = @ + di.period,
                              !.remaining_time = di.active_time]
               ELSE t
          [] di.type = GANG_EVENT_TRIG_MUXING ->
               IF rem < MARGIN
               THEN [t EXCEPT !.earliest_start_time = floor_now,
                              !.deadline = @ + di.period,
                              !.remaining_time = di.active_time]
               ELSE t
          [] di.type = GANG_BEST_EFFORT_MUXING ->
               IF rem < MARGIN
               THEN [t EXCEPT !.earliest_start_time = floor_now,
                              !.deadline = @ + (bedoms[di.cohort]
                                                  * __period_4_be_doms),
                              !.remaining_time = __quantum_4_be_doms]
               ELSE t
          [] OTHER -> t

\* Mutant of __update_times_in_ticket: a time-triggered ticket is re-armed
\* at the present time, like an event-triggered one.
__update_times_in_ticket_rearms_at_now(t, di, now, bedoms) ==
    LET diff0 == now - t.activated_at
        diff == IF diff0 < 0 THEN 0 ELSE diff0
        rem == t.remaining_time - diff
        floor_now == (now \div GANG_FINEST_TIME_GRAIN) * GANG_FINEST_TIME_GRAIN
        t2 == [t EXCEPT !.remaining_time = rem]
    IN  CASE di.type = GANG_NO_MUXING -> t
          [] di.type \in {GANG_TIME_TRIG_MUXING, GANG_EVENT_TRIG_MUXING} ->
               IF rem < MARGIN
               THEN [t EXCEPT !.earliest_start_time = floor_now,
                              !.deadline = @ + di.period,
                              !.remaining_time = di.active_time]
               ELSE t2
          [] di.type = GANG_BEST_EFFORT_MUXING ->
               IF rem < MARGIN
               THEN [t EXCEPT !.earliest_start_time = floor_now,
                              !.deadline = @ + (bedoms[di.cohort]
                                                  * __period_4_be_doms),
                              !.remaining_time = __quantum_4_be_doms]
               ELSE t2
          [] OTHER -> t2

\* Mutant of __update_times_in_ticket: the deadline of a best-effort ticket
\* advances by one period whatever the number of best-effort domains.
__update_times_in_ticket_one_period(t, di, now, bedoms) ==
    LET diff0 == now - t.activated_at
        diff == IF diff0 < 0 THEN 0 ELSE diff0
        rem == t.remaining_time - diff
        floor_now == (now \div GANG_FINEST_TIME_GRAIN) * GANG_FINEST_TIME_GRAIN
        t2 == [t EXCEPT !.remaining_time = rem]
    IN  CASE di.type = GANG_NO_MUXING -> t
          [] di.type = GANG_TIME_TRIG_MUXING ->
               IF rem < MARGIN
               THEN [t EXCEPT !.earliest_start_time = @ + di.period,
                              !.deadline = @ + di.period,
                              !.remaining_time = di.active_time]
               ELSE t2
          [] di.type = GANG_EVENT_TRIG_MUXING ->
               IF rem < MARGIN
               THEN [t EXCEPT !.earliest_start_time = floor_now,
                              !.deadline = @ + di.period,
                              !.remaining_time = di.active_time]
               ELSE t2
          [] di.type = GANG_BEST_EFFORT_MUXING ->
               IF rem < MARGIN
               THEN [t EXCEPT !.earliest_start_time = floor_now,
                              !.deadline = @ + __period_4_be_doms,
                              !.remaining_time = __quantum_4_be_doms]
               ELSE t2
          [] OTHER -> t2

\* __update_times_in_ticket, reason NORMAL_SCHEDULING: the new time values
\* of a ticket that ran since activated_at.
__update_times_in_ticket(t, di, now, bedoms) ==
    LET diff0 == now - t.activated_at
        diff == IF diff0 < 0 THEN 0 ELSE diff0
        rem == t.remaining_time - diff
        floor_now == (now \div GANG_FINEST_TIME_GRAIN) * GANG_FINEST_TIME_GRAIN
        t2 == [t EXCEPT !.remaining_time = rem]
    IN  CASE di.type = GANG_NO_MUXING -> t
          [] di.type = GANG_TIME_TRIG_MUXING ->
               IF rem < MARGIN
               THEN [t EXCEPT !.earliest_start_time = @ + di.period,
                              !.deadline = @ + di.period,
                              !.remaining_time = di.active_time]
               ELSE t2
          [] di.type = GANG_EVENT_TRIG_MUXING ->
               IF rem < MARGIN
               THEN [t EXCEPT !.earliest_start_time = floor_now,
                              !.deadline = @ + di.period,
                              !.remaining_time = di.active_time]
               ELSE t2
          [] di.type = GANG_BEST_EFFORT_MUXING ->
               IF rem < MARGIN
               THEN [t EXCEPT !.earliest_start_time = floor_now,
                              !.deadline = @ + (bedoms[di.cohort]
                                                  * __period_4_be_doms),
                              !.remaining_time = __quantum_4_be_doms]
               ELSE t2
          [] OTHER -> t2

\* One iteration of the loop of __update_current_tickets over the CPU ids.
\* st.cur is the table as it was on entry (it is zeroed after the loop).
\* A slot that points to a freed ticket is dereferenced by the code: ub says
\* whether the stale memory still reads as the ticket or the read crashes.
CurrentTicketStep(cpu, st, now, di, bedoms, lv, ub) ==
    LET tid == st.cur[cpu]
        d == tid[2]
    IN  IF st.panic # "no" \/ cpu \in st.checked \/ tid = NULL THEN st
        ELSE IF tid \notin lv /\ ub = "crash"
             THEN [st EXCEPT !.panic = "freed_ticket", !.fault = TRUE]
        ELSE IF \E q \in st.rq : q[2] = d
             THEN [st EXCEPT !.panic = "ticket_in_runnable_Q"]
        ELSE IF ~ VALIDATE_GANG_SCHED_POLICY_TYPE(di[d].type)
             THEN [st EXCEPT !.panic = "invalid_policy"]
        ELSE IF di[d].type # GANG_NO_MUXING
                  /\ now - st.tk[tid].activated_at < MIN_NEGATIVE_DIFF
             THEN [st EXCEPT !.panic = "negative_diff"]
        ELSE [st EXCEPT
                !.tk = [@ EXCEPT ![tid] =
                          __update_times_in_ticket(@, di[d], now, bedoms)],
                !.aq = @ \cup {tid},
                !.checked = @ \cup di[d].cpumask,
                !.fault = @ \/ tid \notin lv]

RECURSIVE __update_current_tickets(_, _, _, _, _, _, _)
__update_current_tickets(n, st, now, di, bedoms, lv, ub) ==
    IF n = 0 THEN st
    ELSE The({ CurrentTicketStep(n - 1, prev, now, di, bedoms, lv, ub) :
                  prev \in {__update_current_tickets(n - 1, st, now, di,
                                                     bedoms, lv, ub)} })

\* Mutant of MoveDue: a ticket whose earliest start time equals now stays in
\* the activation queue.
MoveDue_before_now(st1, now) ==
    LET due == IF now = INFINITY THEN {}
               ELSE { t \in st1.aq : st1.tk[t].earliest_start_time < now }
        aq2 == st1.aq \ due
        est(t) == st1.tk[t].earliest_start_time
    IN  [ rq |-> st1.rq \cup due, aq |-> aq2,
          cur |-> [i \in CPUs |-> NULL], tk |-> st1.tk,
          panic |-> st1.panic, fault |-> st1.fault,
          earliest_actv |-> IF aq2 = {} \/ now = INFINITY THEN INFINITY
                            ELSE est(HeadBy(aq2, est)) ]

\* Mutant of MoveDue: the tickets that become runnable are not taken out of
\* the activation queue.
MoveDue_keeps_due(st1, now) ==
    LET due == IF now = INFINITY THEN {}
               ELSE { t \in st1.aq : st1.tk[t].earliest_start_time <= now }
        est(t) == st1.tk[t].earliest_start_time
    IN  [ rq |-> st1.rq \cup due, aq |-> st1.aq,
          cur |-> [i \in CPUs |-> NULL], tk |-> st1.tk,
          panic |-> st1.panic, fault |-> st1.fault,
          earliest_actv |-> IF st1.aq = {} \/ now = INFINITY THEN INFINITY
                            ELSE est(HeadBy(st1.aq, est)) ]

\* The second half of __update_sched_info: the table is zeroed, then every
\* ticket of the activation queue whose earliest start time has arrived moves
\* to the runnable queue.  st1 is the local scheduler after the time update.
MoveDue(st1, now) ==
    LET due == IF now = INFINITY THEN {}
               ELSE { t \in st1.aq : st1.tk[t].earliest_start_time <= now }
        aq2 == st1.aq \ due
        est(t) == st1.tk[t].earliest_start_time
    IN  [ rq |-> st1.rq \cup due, aq |-> aq2,
          cur |-> [i \in CPUs |-> NULL], tk |-> st1.tk,
          panic |-> st1.panic, fault |-> st1.fault,
          earliest_actv |-> IF aq2 = {} \/ now = INFINITY THEN INFINITY
                            ELSE est(HeadBy(aq2, est)) ]

\* __update_sched_info: the time update of the current tickets, then the
\* move of the due tickets.
__update_sched_info(s, now, di, bedoms, lv, ub) ==
    The({ MoveDue(st1, now) :
            st1 \in {__update_current_tickets(NR_CPUS,
                        [ rq |-> s.rq, aq |-> s.aq, cur |-> s.cur, tk |-> s.tk,
                          checked |-> {}, panic |-> "no", fault |-> FALSE ],
                        now, di, bedoms, lv, ub)} })

\* Mutant of AssignTicket: the loop stops after the first CPU of the mask.
AssignTicket_first_cpu_only(cur, mask, ticket) ==
    [i \in CPUs |-> IF i = SetMin(mask) THEN ticket ELSE cur[i]]

\* The loop of gang_do_schedule that writes the chosen ticket into the slot
\* of every CPU of the domain's mask.
AssignTicket(cur, mask, ticket) ==
    [i \in CPUs |-> IF i \in mask THEN ticket ELSE cur[i]]

\* One iteration of the loop of gang_do_schedule over the runnable queue:
\* the head ticket is either installed on every CPU of its domain's mask or
\* put back into the activation queue.
PickStep(cpu_id, st, now, di, coh) ==
    LET dl(t) == st.tk[t].deadline
        ticket == HeadBy(st.rq, dl)
        d == ticket[2]
        mask == di[d].cpumask
        rem == st.tk[ticket].remaining_time
        rq2 == st.rq \ {ticket}
        nrun == st.nrun + 1
    IN  IF mask \cap st.assigned = {}
        THEN LET assigned == st.assigned \cup mask
                 tval == IF di[d].type = GANG_NO_MUXING THEN INFINITY
                         ELSE now + rem
                 bug == IF \E i \in mask : st.cur[i] # NULL
                            THEN "slot_in_use"
                        ELSE IF di[d].type = GANG_NO_MUXING /\ rem # INFINITY
                            THEN "non_muxed_finite_time"
                        ELSE IF di[d].type # GANG_NO_MUXING /\ rem = INFINITY
                            THEN "muxed_infinite_time"
                        ELSE IF di[d].type # GANG_NO_MUXING /\ rem < MARGIN
                            THEN "time_below_margin"
                        ELSE "no"
             IN  [st EXCEPT
                    !.rq = rq2, !.nrun = nrun, !.assigned = assigned,
                    !.cur = AssignTicket(@, mask, ticket),
                    !.tk = [@ EXCEPT ![ticket].activated_at = now],
                    !.eos = MIN(@, tval),
                    !.nonmux = @ \/ di[d].type = GANG_NO_MUXING,
                    !.panic = bug,
                    !.done = assigned = coh[cpu_id]]
        ELSE LET tval0 == st.tk[ticket].deadline - rem
                 tval == IF tval0 <= now THEN now + GANG_FINEST_TIME_GRAIN
                         ELSE tval0
             IN  IF tval0 <= 0
                 THEN [st EXCEPT !.rq = rq2, !.nrun = nrun,
                                 !.panic = "deferral_time_not_positive"]
                 ELSE [st EXCEPT
                         !.rq = rq2, !.nrun = nrun,
                         !.eos = MIN(@, tval),
                         !.aq = @ \cup {ticket},
                         !.done = st.assigned = coh[cpu_id]]

RECURSIVE PickLoop(_, _, _, _, _)
PickLoop(cpu_id, st, now, di, coh) ==
    IF st.rq = {} \/ st.done \/ st.panic # "no" THEN st
    ELSE The({ PickLoop(cpu_id, next, now, di, coh) :
                  next \in {PickStep(cpu_id, st, now, di, coh)} })

\* Mutant of Dispatch: the end of the time slice is not rounded down to the
\* grain.
Dispatch_not_rounded(cpu_id, u, p, now, curr, priv, di) ==
    LET panic == IF p.panic # "no" THEN p.panic
                 ELSE IF p.nonmux /\ p.nrun > 1 THEN "non_muxed_not_alone"
                 ELSE "no"
        sel == p.cur[cpu_id]
        eos == MIN(p.eos, u.earliest_actv)
        yielding == /\ curr # IDLE
                    /\ sel = priv
                    /\ di[curr[1]].type # GANG_NO_MUXING
                    /\ p.tk[priv].yield
        ticket == IF yielding THEN NULL ELSE sel
        tk2 == IF curr # IDLE /\ priv # NULL
               THEN [p.tk EXCEPT ![priv].yield = FALSE] ELSE p.tk
        time == IF eos < INFINITY THEN MAX(eos - now, 0) ELSE -1
    IN  [ rq |-> p.rq, aq |-> p.aq, cur |-> p.cur, tk |-> tk2,
          panic |-> IF panic # "no" THEN panic
                    ELSE IF ticket # NULL /\ p.tk[ticket].vcpu = NOVCPU
                         THEN "ticket_without_vcpu" ELSE "no",
          fault |-> u.fault,
          task |-> IF ticket = NULL THEN IDLE
                   ELSE << ticket[2], p.tk[ticket].vcpu >>,
          time |-> time ]

\* The end of gang_do_schedule: the sanity check on exclusive domains, the
\* rounding of the time slice, the yield of the running VCPU and the choice
\* of the VCPU to run.  u is the local scheduler after __update_sched_info, p
\* after the pick loop.
Dispatch(cpu_id, u, p, now, curr, priv, di) ==
    LET panic == IF p.panic # "no" THEN p.panic
                 ELSE IF p.nonmux /\ p.nrun > 1 THEN "non_muxed_not_alone"
                 ELSE "no"
        sel == p.cur[cpu_id]
        eos0 == MIN(p.eos, u.earliest_actv)
        eos == IF eos0 < INFINITY
               THEN (eos0 \div GANG_FINEST_TIME_GRAIN) * GANG_FINEST_TIME_GRAIN
               ELSE eos0
        yielding == /\ curr # IDLE
                    /\ sel = priv
                    /\ di[curr[1]].type # GANG_NO_MUXING
                    /\ p.tk[priv].yield
        ticket == IF yielding THEN NULL ELSE sel
        tk2 == IF curr # IDLE /\ priv # NULL
               THEN [p.tk EXCEPT ![priv].yield = FALSE] ELSE p.tk
        time == IF eos < INFINITY THEN MAX(eos - now, 0) ELSE -1
    IN  [ rq |-> p.rq, aq |-> p.aq, cur |-> p.cur, tk |-> tk2,
          panic |-> IF panic # "no" THEN panic
                    ELSE IF ticket # NULL /\ p.tk[ticket].vcpu = NOVCPU
                         THEN "ticket_without_vcpu" ELSE "no",
          fault |-> u.fault,
          task |-> IF ticket = NULL THEN IDLE
                   ELSE << ticket[2], p.tk[ticket].vcpu >>,
          time |-> time ]

\* gang_do_schedule after the guard on the topology: the update of the
\* local scheduler u, then either the exit for a tasklet or the pick loop and
\* the dispatch.
Decide(cpu_id, u, now, tasklet, curr, priv, g) ==
    IF tasklet
    THEN [ rq |-> u.rq, aq |-> u.aq, cur |-> u.cur, tk |-> u.tk,
           panic |-> u.panic, fault |-> u.fault, task |-> IDLE, time |-> -1 ]
    ELSE The({ Dispatch(cpu_id, u, p, now, curr, priv, g.dom_info) :
                 p \in {PickLoop(cpu_id,
                          [ rq |-> u.rq, aq |-> u.aq, cur |-> u.cur,
                            tk |-> u.tk, assigned |-> {}, eos |-> INFINITY,
                            nrun |-> 0, nonmux |-> FALSE, panic |-> u.panic,
                            done |-> FALSE ],
                          now, g.dom_info, g.cohorts)} })

\* gang_do_schedule on CPU cpu_id at time now.  s is the local scheduler
\* (rq, aq, cur, tk), curr the VCPU that runs on the CPU (IDLE or a
\* <<domain, vcpu>> pair), priv the ticket of that VCPU and g the global
\* topology and canonical domain records.  The result holds
\* the new local scheduler, the chosen VCPU and the time slice (ret.time).
gang_do_schedule(cpu_id, s, now, tasklet, curr, priv, g, lv, ub) ==
    IF g.num_of_cohorts = 0 \/ g.num_of_muxgroups = 0
    THEN [ rq |-> s.rq, aq |-> s.aq, cur |-> s.cur, tk |-> s.tk,
           panic |-> "no", fault |-> FALSE, task |-> IDLE, time |-> -1 ]
    ELSE The({ Decide(cpu_id, u, now, tasklet, curr, priv, g) :
                 u \in {__update_sched_info(s, now, g.dom_info,
                                            g.be_doms_in_cohort, lv, ub)} })

\* __deinit_sched_info on the local scheduler s: the three queues are
\* emptied and their tickets freed, then the current-ticket table is walked
\* with a mask of cleared CPUs taken from the canonical records di as the
\* walking CPU sees them.  The result is the set of tickets freed and whether
\* some ticket was freed twice.
RECURSIVE DeinitWalk(_, _, _, _)
DeinitWalk(cpu, s, di, st) ==
    IF cpu = NR_CPUS THEN st
    ELSE LET tkt == s.cur[cpu]
         IN  IF cpu \in st.cleared_cpus \/ tkt = NULL
             THEN DeinitWalk(cpu + 1, s, di, st)
             ELSE The({ DeinitWalk(cpu + 1, s, di, next) :
                        next \in {[ cleared_cpus |->
                                       st.cleared_cpus \cup di[tkt[2]].cpumask,
                                    freed |-> st.freed \cup {tkt},
                                    twice |-> st.twice \/ tkt \in st.freed ]} })

__deinit_sched_info(s, di, lv) ==
    The({ [ freed |-> st.freed,
            twice |-> st.twice \/ \E t \in st.freed : t \notin lv ] :
          st \in { DeinitWalk(0, s, di, st0) :
                     st0 \in {[ cleared_cpus |-> {},
                                freed |-> s.rq \cup s.aq \cup s.wait,
                                twice |-> FALSE ]} } })

\* __setup_vcpus_for_domain for every entry of the array: the VCPUs of a
\* domain go to the CPUs of its mask in ascending order.  A domain whose
\* number of VCPUs differs from the size of its mask hits the BUG_ON.
SetupFits(arr) ==
    \A l \in 1 .. Len(arr) :
        Cardinality(arr[l].cpumask) = __count_vcpus_in_domain(arr[l].domid)

__setup_vcpus_for_domain(e, proc) ==
    LET cpus == SeqOfSet(e.cpumask)
        vs == SeqOfSet(VcpuIds(e.domid))
    IN  [ dv \in Vcpus |->
            IF dv[1] = e.domid
            THEN cpus[CHOOSE i \in 1 .. Len(vs) : vs[i] = dv[2]]
            ELSE proc[dv] ]

RECURSIVE SetupVcpus(_, _, _)
SetupVcpus(arr, l, proc) ==
    IF l = 0 THEN proc
    ELSE The({ __setup_vcpus_for_domain(arr[l], prev) :
                  prev \in {SetupVcpus(arr, l - 1, proc)} })

\* ---------------------------------------------------------------------------
\* State
\* ---------------------------------------------------------------------------
VARIABLES
    clock,               \* NOW()
    ticks,               \* number of clock advances so far
    events,              \* number of asynchronous events so far
    nadjust,             \* number of calls of gang_adjust_global so far
    dom_info,            \* canonical per-domain records (dom->sched_priv)
    processor,           \* vcpu->processor
    sched_priv,          \* vcpu->sched_priv: a ticket, or NULL for the ticket
                         \* allocated at VCPU creation
    dying,               \* domains whose VCPUs are being destroyed
    cohorts, cpu_2_cohort, be_doms_in_cohort, num_of_cohorts,
    num_of_muxgroups,
    runnable_Q, activation_Q, waiting_4_event, cur_ticket_per_cpu,
    tickets,             \* the time values of every ticket
    live,                \* tickets allocated by a rebuild and not yet freed
    timer,               \* expiry of the scheduler timer of each CPU
    softirq,             \* SCHEDULE_SOFTIRQ pending on the CPU
    current,             \* the VCPU each CPU runs
    hist,                \* the values of now of the decisions of a CPU since
                         \* the last rebuild
    perturbed,           \* a tasklet, a yield or a VCPU removal was seen on
                         \* the CPU since the last rebuild
    exec_count,          \* the permit counter of gang_adjust_global
    rc,                  \* result of the last call of gang_adjust_global
    heap_fault,          \* a ticket was freed twice or read after its release
    panicked,            \* "no", or the fatal check that stopped the machine
    adj_smp_paused_count,  \* the shared counter of the two barriers
    adj_cpu_info,        \* per CPU: the ack and paused flags
    handler,             \* where each CPU is in __adjust_and_pause_this_cpu
    ipi_pending,         \* the cross-call has not reached the CPU yet
    initiator,           \* where the putinfo caller is in gang_adjust_global
    querier,             \* where a second, concurrent caller is
    params_live,         \* the params record of __smp_adjust_and_pause (a
                         \* local of that function) still exists
    buffers_live,        \* the request array and temporary topology arrays
                         \* have not been released yet
    adj_conf,            \* the configuration the params record points to
    timed_out,           \* a wait of the initiator ended by timeout
    stale_read,          \* a handler read params or buffers after their end
    bad_write,           \* the topology was written by another CPU than the
                         \* designated one, before every CPU had incremented
                         \* the counter, or after a CPU had passed Barrier 2
    published,           \* the designated CPU finished the step between
                         \* the barriers in this reconfiguration
    early_rebuild,       \* a CPU began its rebuild before that
    overlap,             \* two bodies of gang_adjust_global ran at once
    input,               \* the arguments of a call of a user-space tool
    output               \* what the call returned

timeVars == << clock, ticks, events, nadjust >>
domVars == << dom_info, processor, sched_priv, dying >>
topoVars == << cohorts, cpu_2_cohort, be_doms_in_cohort, num_of_cohorts,
               num_of_muxgroups >>
schedVars == << runnable_Q, activation_Q, waiting_4_event, cur_ticket_per_cpu,
                tickets, live >>
cpuVars == << timer, softirq, current, hist, perturbed >>
callVars == << exec_count, rc >>
faultVars == << heap_fault, panicked >>
adjVars == << adj_smp_paused_count, adj_cpu_info, handler, ipi_pending,
              initiator, querier, params_live, buffers_live, adj_conf,
              timed_out, stale_read, bad_write, published, early_rebuild,
              overlap >>
\* The arguments and the result of a call of the user-space tools.
toolVars == << input, output >>
NoOutput == [status |-> "none"]

InitSched ==
    /\ clock = 0
    /\ ticks = 0
    /\ events = 0
    /\ nadjust = 0
    /\ dom_info = [d \in DomIds |-> gang_alloc_domdata]
    /\ processor = [dv \in Vcpus |-> 1]
    /\ sched_priv = [dv \in Vcpus |-> NULL]
    /\ dying = {}
    /\ cohorts = [i \in CPUs |-> {}]
    /\ cpu_2_cohort = [i \in CPUs |-> NOCOHORT]
    /\ be_doms_in_cohort = [i \in CPUs |-> 0]
    /\ num_of_cohorts = 0
    /\ num_of_muxgroups = 0
    /\ runnable_Q = [c \in PoolCpus |-> {}]
    /\ activation_Q = [c \in PoolCpus |-> {}]
    /\ waiting_4_event = [c \in PoolCpus |-> {}]
    /\ cur_ticket_per_cpu = [c \in PoolCpus |-> [i \in CPUs |-> NULL]]
    /\ tickets = [t \in TicketIds |-> gang_alloc_vdata]
    /\ live = {}
    /\ timer = [c \in PoolCpus |-> INFINITY]
    /\ softirq = [c \in PoolCpus |-> FALSE]
    /\ current = [c \in PoolCpus |-> IDLE]
    /\ hist = [c \in PoolCpus |-> << >>]
    /\ perturbed = [c \in PoolCpus |-> FALSE]
    /\ exec_count = 0
    /\ rc = "none"
    /\ heap_fault = FALSE
    /\ panicked = "no"
    /\ adj_smp_paused_count = 0
    /\ adj_cpu_info = [c \in PoolCpus |-> [ack |-> 0, paused |-> 0]]
    /\ handler = [c \in PoolCpus |-> "out"]
    /\ ipi_pending = [c \in PoolCpus |-> FALSE]
    /\ initiator = "out"
    /\ querier = "out"
    /\ params_live = FALSE
    /\ buffers_live = FALSE
    /\ adj_conf = << >>
    /\ timed_out = FALSE
    /\ stale_read = FALSE
    /\ bad_write = FALSE
    /\ published = FALSE
    /\ early_rebuild = FALSE
    /\ overlap = FALSE

\* The part of the global state gang_do_schedule reads.
Globals ==
    [ dom_info |-> dom_info, cohorts |-> cohorts,
      be_doms_in_cohort |-> be_doms_in_cohort,
      num_of_cohorts |-> num_of_cohorts,
      num_of_muxgroups |-> num_of_muxgroups ]

LocalSched(c) ==
    [ rq |-> runnable_Q[c], aq |-> activation_Q[c],
      wait |-> waiting_4_event[c], cur |-> cur_ticket_per_cpu[c],
      tk |-> tickets ]

\* ---------------------------------------------------------------------------
\* Scheduling actions
\* ---------------------------------------------------------------------------
\* The scheduler softirq on CPU c: Xen calls gang_do_schedule with now =
\* NOW(), switches to the task returned and arms the timer of the CPU with
\* the returned time slice.  A decision taken for a tasklet is an
\* asynchronous event; when the tasklet is done the softirq is raised again.
DoSchedule(c) ==
    /\ panicked = "no"
    /\ softirq[c] \/ timer[c] <= clock
    /\ \E tasklet \in BOOLEAN, ub \in {"stale", "crash"} :
        LET curr == current[c]
            priv == IF curr = IDLE THEN NULL ELSE sched_priv[curr]
        IN  /\ tasklet => events < MaxEvents
            /\ ub = "crash" =>
                  \E i \in CPUs : /\ cur_ticket_per_cpu[c][i] # NULL
                                  /\ cur_ticket_per_cpu[c][i] \notin live
            /\ \E r \in {gang_do_schedule(c, LocalSched(c), clock, tasklet,
                                          curr, priv, Globals, live, ub)} :
                /\ events' = IF tasklet THEN events + 1 ELSE events
                /\ runnable_Q' = [runnable_Q EXCEPT ![c] = r.rq]
                /\ activation_Q' = [activation_Q EXCEPT ![c] = r.aq]
                /\ cur_ticket_per_cpu' = [cur_ticket_per_cpu EXCEPT ![c] = r.cur]
                /\ tickets' = r.tk
                /\ panicked' = r.panic
                /\ heap_fault' = (heap_fault \/ r.fault)
                /\ current' = [current EXCEPT ![c] = r.task]
                /\ timer' = [timer EXCEPT
                               ![c] = IF r.time < 0 THEN INFINITY
                                      ELSE clock + r.time]
                /\ softirq' = [softirq EXCEPT ![c] = tasklet]
                /\ hist' = [hist EXCEPT ![c] = Append(@, clock)]
                /\ perturbed' = [perturbed EXCEPT
                                   ![c] = @ \/ tasklet
                                            \/ (priv # NULL /\ tickets[priv].yield)]
    /\ UNCHANGED << clock, ticks, nadjust, domVars, topoVars,
                    waiting_4_event, live, callVars, adjVars >>
    /\ UNCHANGED toolVars

\* Time passes until the next timer of the pool expires.  Every CPU whose
\* timer has expired or whose softirq is pending takes its decision first.
Tick ==
    /\ panicked = "no"
    /\ ticks < MaxTicks
    /\ \A c \in PoolCpus : ~ softirq[c] /\ timer[c] > clock
    /\ \E c \in PoolCpus : timer[c] < INFINITY
    /\ clock' = SetMin({ timer[c] : c \in PoolCpus })
    /\ ticks' = ticks + 1
    /\ UNCHANGED << events, nadjust, domVars, topoVars, schedVars, cpuVars,
                    callVars, faultVars, adjVars >>
    /\ UNCHANGED toolVars

\* gang_yield: the guest running on CPU c yields its VCPU; Xen then raises
\* the scheduler softirq on that CPU.
Yield(c) ==
    /\ panicked = "no"
    /\ events < MaxEvents
    /\ current[c] # IDLE
    /\ sched_priv[current[c]] # NULL
    /\ events' = events + 1
    /\ tickets' = [tickets EXCEPT ![sched_priv[current[c]]].yield = TRUE]
    /\ softirq' = [softirq EXCEPT ![c] = TRUE]
    /\ UNCHANGED << clock, ticks, nadjust, domVars, topoVars, runnable_Q,
                    activation_Q, waiting_4_event, cur_ticket_per_cpu, live,
                    timer, current, hist, perturbed, callVars, faultVars,
                    adjVars >>
    /\ UNCHANGED toolVars

\* __get_ticket_location: where the local scheduler s holds a ticket of the
\* domain.
__get_ticket_location(domid, s) ==
    IF \E t \in s.rq : t[2] = domid THEN "RUNNABLE_Q"
    ELSE IF \E t \in s.aq : t[2] = domid THEN "ACTIVATION_Q"
    ELSE IF \E t \in s.wait : t[2] = domid THEN "WAITING_4_EVENT_SET"
    ELSE "NOT_FOUND"

\* Destruction of a VCPU that is not running (sched_destroy_vcpu of Xen):
\* gang_remove_vcpu takes its ticket out of the queue that holds it, then
\* gang_free_vdata releases the ticket.  The domain has left the domain list
\* by then.
RemoveVcpu(dv) ==
    /\ panicked = "no"
    /\ events < MaxEvents
    /\ \A c \in PoolCpus : current[c] # dv
    /\ LET cpu_id == processor[dv]
           tkt == sched_priv[dv]
           tloc == __get_ticket_location(dv[1], LocalSched(cpu_id))
           gone(Q) == { t \in Q : t[2] # dv[1] }
       IN  /\ runnable_Q' = IF tloc = "RUNNABLE_Q"
                            THEN [runnable_Q EXCEPT ![cpu_id] = gone(@)]
                            ELSE runnable_Q
           /\ activation_Q' = IF tloc = "ACTIVATION_Q"
                              THEN [activation_Q EXCEPT ![cpu_id] = gone(@)]
                              ELSE activation_Q
           /\ waiting_4_event' =
                  IF tloc = "WAITING_4_EVENT_SET"
                  THEN [waiting_4_event EXCEPT ![cpu_id] = gone(@)]
                  ELSE waiting_4_event
           /\ live' = live \ {tkt}
    /\ events' = events + 1
    /\ dying' = dying \cup {dv[1]}
    /\ perturbed' = [perturbed EXCEPT ![processor[dv]] = TRUE]
    /\ UNCHANGED << clock, ticks, nadjust, dom_info, processor, sched_priv,
                    topoVars, cur_ticket_per_cpu, tickets, timer, softirq,
                    current, hist, callVars, faultVars, adjVars >>
    /\ UNCHANGED toolVars

\* ---------------------------------------------------------------------------
\* Reconfiguration
\* ---------------------------------------------------------------------------
\* The state the adjustment routine works on.
World ==
    [ dom_info |-> dom_info, sched_priv |-> sched_priv, tickets |-> tickets,
      live |-> live, runnable_Q |-> runnable_Q, activation_Q |-> activation_Q,
      waiting_4_event |-> waiting_4_event,
      cur_ticket_per_cpu |-> cur_ticket_per_cpu,
      fault |-> FALSE, panic |-> "no" ]

\* The local scheduler of CPU c as __update_local_sched_v0 leaves it: dn is
\* the outcome of the release of the old tickets, st of the loop over the
\* array.
Rebuilt(c, W, dn, st) ==
    IF W.panic # "no" THEN W
        ELSE [ dom_info |-> st.di, sched_priv |-> st.priv, tickets |-> st.tk,
               live |-> { t \in W.live : t[1] # c } \cup st.live,
               runnable_Q |-> [W.runnable_Q EXCEPT ![c] = {}],
               activation_Q |-> [W.activation_Q EXCEPT ![c] = st.actv],
               waiting_4_event |-> [W.waiting_4_event EXCEPT ![c] = st.wait],
               cur_ticket_per_cpu |->
                   [W.cur_ticket_per_cpu EXCEPT ![c] = [i \in CPUs |-> NULL]],
               fault |-> W.fault \/ dn.twice,
               panic |-> st.panic ]

\* __update_local_sched_v0 on CPU c: the old tickets are released, then the
\* loop over the array rebuilds the local scheduler.  view is the content of
\* the canonical records as the release walk of this CPU reads it.
__update_local_sched_v0(c, W, conf, now, designated, proc, view) ==
    The({ Rebuilt(c, W, dn, st) :
            dn \in {__deinit_sched_info(
                       [ rq |-> W.runnable_Q[c], aq |-> W.activation_Q[c],
                         wait |-> W.waiting_4_event[c],
                         cur |-> W.cur_ticket_per_cpu[c] ], view, W.live)},
            st \in {RebuildLoop(c, conf.arr, Len(conf.arr),
                       [ di |-> W.dom_info, nonmux |-> FALSE, mux |-> FALSE,
                         be |-> 0, panic |-> "no", live |-> {}, wait |-> {},
                         tk |-> W.tickets, actv |-> {}, priv |-> W.sched_priv ],
                       now, designated, conf.cpu_2_cohort,
                       conf.be_doms_in_cohort, proc)} })

\* The canonical records after the loop of the designated CPU.
PublishedDomInfo(di, conf) ==
    [ d \in DomIds |->
        IF \E l \in 1 .. Len(conf.arr) : conf.arr[l].domid = d
        THEN LET e == conf.arr[CHOOSE l \in 1 .. Len(conf.arr) :
                                  conf.arr[l].domid = d]
             IN  [ type |-> e.type, cpumask |-> e.cpumask, from |-> e.from,
                   period |-> e.period, active_time |-> e.active_time,
                   cohort |-> e.cohort ]
        ELSE di[d] ]

\* Every CPU of the pool runs __update_local_sched_v0, the designated CPU
\* among them.  The release walk of another CPU races with the loop of the
\* designated CPU: it reads the canonical masks as they were or, for the
\* CPUs of sees_new, as the designated CPU left them.
RECURSIVE RebuildAll(_, _, _, _, _, _, _)
RebuildAll(cpus, W, conf, now, designated, proc, sees_new) ==
    IF cpus = << >> THEN W
    ELSE LET c == Head(cpus)
             view == IF c \in sees_new
                     THEN PublishedDomInfo(dom_info, conf) ELSE dom_info
         IN  The({ RebuildAll(Tail(cpus), W2, conf, now, designated, proc,
                              sees_new) :
                     W2 \in {__update_local_sched_v0(c, W, conf, now,
                                 designated, proc, view)} })

\* cpumask_first(cpu_pool->cpu_valid)
designated_cpu_id == SetMin(PoolCpus)

\* The state after the adjustment routine has run on every CPU of the pool
\* for the configuration conf (between the barriers the designated CPU
\* publishes the topology and moves the VCPUs; then every CPU rebuilds).
Installed(conf, now, sees_new) ==
    The({ RebuildAll(SeqOfSet(PoolCpus), W, conf, now, designated_cpu_id,
                     proc, sees_new) :
            W \in {World},
            proc \in {SetupVcpus(conf.arr, Len(conf.arr), processor)} })

\* atomic_inc_and_test: 1 iff the incremented value is zero.
atomic_inc_and_test(v) == IF v + 1 = 0 THEN 1 ELSE 0

\* Mutant of Reject: the exit path also resets the global topology.
Reject_resets_topology(code) ==
    /\ rc' = code
    /\ cohorts' = [i \in CPUs |-> {}]
    /\ cpu_2_cohort' = [i \in CPUs |-> NOCOHORT]
    /\ be_doms_in_cohort' = [i \in CPUs |-> 0]
    /\ num_of_cohorts' = 0
    /\ num_of_muxgroups' = 0
    /\ UNCHANGED << domVars, schedVars, cpuVars, faultVars >>

\* The exit path of gang_adjust_global for a call that is turned down: the
\* temporary buffers are released and the error code is returned.
Reject(code) ==
    /\ rc' = code
    /\ UNCHANGED << domVars, topoVars, schedVars, cpuVars, faultVars >>

\* gang_adjust_global, putinfo, run to completion with every CPU of the pool
\* answering in time.  priv tells whether the caller is in the control
\* domain on a CPU of the default pool.
PutInfo(req, priv) ==
    /\ panicked = "no"
    /\ nadjust < MaxAdjust
    /\ nadjust' = nadjust + 1
    /\ IF ~ priv
       THEN /\ Reject("EPERM")
            /\ exec_count' = exec_count - 1
       ELSE IF atomic_inc_and_test(exec_count) > 1
       THEN /\ Reject("EBUSY")
            /\ exec_count' = exec_count - 1
       ELSE IF ~ ValidRequest(req, dying)
                  \/ ~ __validate_resource_allocation(
                           NewConfiguration(dom_info, req, dying).arr)
       THEN /\ Reject("EINVAL")
            /\ UNCHANGED exec_count
       ELSE \E conf \in {NewConfiguration(dom_info, req, dying)} :
                /\ cohorts' = conf.cohorts
                /\ cpu_2_cohort' = conf.cpu_2_cohort
                /\ be_doms_in_cohort' = conf.be_doms_in_cohort
                /\ num_of_cohorts' = conf.num_of_cohorts
                /\ num_of_muxgroups' = conf.num_of_muxgroups
                /\ IF ~ SetupFits(conf.arr)
                   THEN /\ panicked' = "cpus_differ_from_vcpus"
                        /\ rc' = "none"
                        /\ UNCHANGED << exec_count, domVars, schedVars,
                                        cpuVars, heap_fault >>
                   ELSE \E sees_new \in SUBSET (PoolCpus \ {designated_cpu_id}) :
                        \E W \in {Installed(conf, clock, sees_new)} :
                            /\ dom_info' = W.dom_info
                            /\ processor' = SetupVcpus(conf.arr, Len(conf.arr),
                                                       processor)
                            /\ sched_priv' = W.sched_priv
                            /\ tickets' = W.tickets
                            /\ live' = W.live
                            /\ runnable_Q' = W.runnable_Q
                            /\ activation_Q' = W.activation_Q
                            /\ waiting_4_event' = W.waiting_4_event
                            /\ cur_ticket_per_cpu' = W.cur_ticket_per_cpu
                            /\ heap_fault' = (heap_fault \/ W.fault)
                            /\ panicked' = W.panic
                            /\ rc' = IF W.panic = "no" THEN "OK" ELSE "none"
                            /\ softirq' = [c \in PoolCpus |-> TRUE]
                            /\ hist' = [c \in PoolCpus |-> << >>]
                            /\ perturbed' = [c \in PoolCpus |-> FALSE]
                            /\ UNCHANGED << exec_count, dying, timer, current >>
    /\ UNCHANGED << clock, ticks, events, adjVars >>
    /\ UNCHANGED toolVars

\* The calls of gang_adjust_global: every request from the control domain,
\* and one from a caller without the privilege.
Calls ==
    (Requests \X {TRUE}) \cup {<< CHOOSE r \in GoodRequests : TRUE, FALSE >>}

Next ==
    \/ \E c \in PoolCpus : DoSchedule(c)
    \/ Tick
    \/ \E c \in PoolCpus : Yield(c)
    \/ \E dv \in Vcpus : RemoveVcpu(dv)
    \/ \E call \in Calls : PutInfo(call[1], call[2])

vars ==
    << timeVars, domVars, topoVars, schedVars, cpuVars, callVars, faultVars,
       adjVars, toolVars >>

Init == InitSched /\ input = NULL /\ output = NoOutput

Spec == Init /\ [][Next]_vars

\* ---------------------------------------------------------------------------
\* Properties of the schedule decision and of the configuration
\* ---------------------------------------------------------------------------
\* The tickets a current-ticket table holds.
InTable(c) == { cur_ticket_per_cpu[c][i] : i \in CPUs } \ {NULL}

\* C1: gang invariant.  In the current-ticket table of every CPU, a domain's
\* ticket that occupies the slot of one CPU of the domain's mask occupies the
\* slot of every CPU of the mask, and two different tickets of the table
\* belong to domains with disjoint masks.
C1_GangInvariant ==
    panicked = "no" =>
        \A c \in PoolCpus :
            /\ \A t \in InTable(c) :
                  \A i \in dom_info[t[2]].cpumask : cur_ticket_per_cpu[c][i] = t
            /\ \A t, u \in InTable(c) :
                  t # u => dom_info[t[2]].cpumask \cap dom_info[u[2]].cpumask = {}

\* A decision put two domains side by side in one table and deferred a
\* third one that overlaps both.
C1_Witness ==
    /\ panicked = "no"
    /\ \E c \in PoolCpus :
          /\ Cardinality(InTable(c)) = 2
          /\ \E t \in activation_Q[c] :
                \A u \in InTable(c) :
                    dom_info[t[2]].cpumask \cap dom_info[u[2]].cpumask # {}

\* The containers of the local scheduler of CPU c that hold ticket t.
Containers(c, t) ==
    { k \in {"runnable_Q", "activation_Q", "waiting_4_event", "current"} :
        \/ k = "runnable_Q" /\ t \in runnable_Q[c]
        \/ k = "activation_Q" /\ t \in activation_Q[c]
        \/ k = "waiting_4_event" /\ t \in waiting_4_event[c]
        \/ k = "current" /\ t \in InTable(c) }

View(c, d) ==
    [ where |-> Containers(c, << c, d >>),
      earliest_start_time |-> tickets[<< c, d >>].earliest_start_time,
      deadline |-> tickets[<< c, d >>].deadline,
      remaining_time |-> tickets[<< c, d >>].remaining_time ]

\* C3: two CPUs of one cohort that took the same decisions at the same
\* times since the last reconfiguration, without tasklet, yield or removal,
\* hold every domain of the cohort in the same container with the same times.
C3_IdenticalViews ==
    (panicked = "no" /\ rc = "OK") =>
        \A c1, c2 \in PoolCpus :
            ( /\ cpu_2_cohort[c1] = cpu_2_cohort[c2]
              /\ cpu_2_cohort[c1] # NOCOHORT
              /\ hist[c1] = hist[c2]
              /\ ~ perturbed[c1] /\ ~ perturbed[c2] )
            => \A d \in DomIds \ dying :
                  dom_info[d].cohort = cpu_2_cohort[c1]
                      => View(c1, d) = View(c2, d)

\* Utilisation on CPU c as a fraction << numerator, denominator >>: an
\* exclusive domain counts 1, a time- or event-triggered one active/period,
\* the best-effort domains together the reserve, once.
RECURSIVE SumFractions(_)
SumFractions(F) ==
    IF F = << >> THEN << 0, 1 >>
    ELSE LET r == SumFractions(Tail(F))
         IN  << Head(F)[1] * r[2] + r[1] * Head(F)[2], Head(F)[2] * r[2] >>

Utilisation(c) ==
    LET on == { d \in DomIds : c \in dom_info[d].cpumask }
        share(d) ==
            CASE dom_info[d].type = GANG_NO_MUXING -> << 1, 1 >>
              [] dom_info[d].type \in
                     {GANG_TIME_TRIG_MUXING, GANG_EVENT_TRIG_MUXING} ->
                   << dom_info[d].active_time, dom_info[d].period >>
              [] OTHER -> << 0, 1 >>
        muxed == SeqOfSet({ d \in on :
                              dom_info[d].type # GANG_BEST_EFFORT_MUXING })
        be == IF \E d \in on : dom_info[d].type = GANG_BEST_EFFORT_MUXING
              THEN << DEFAULT_CPU_RESERV_4_BE_DOMAINS, 100 >> ELSE << 0, 1 >>
    IN  SumFractions(<< be >> \o [i \in 1 .. Len(muxed) |-> share(muxed[i])])

\* C4: after a putinfo that returned success, the utilisation of every CPU
\* of the pool is at most 1.
C4_UtilisationBound ==
    rc = "OK" =>
        \A c \in PoolCpus : Utilisation(c)[1] <= Utilisation(c)[2]

\* C5: in an installed configuration an exclusive domain has its cohort for
\* itself, and none of the fatal checks on an exclusive domain that shares a
\* cohort fires.
C5_ExclusiveAlone ==
    /\ rc = "OK" =>
          \A d, e \in DomIds \ dying :
              ( /\ d # e
                /\ dom_info[d].type = GANG_NO_MUXING
                /\ dom_info[e].cpumask # {} )
              => dom_info[d].cohort # dom_info[e].cohort
    /\ panicked \notin {"non_muxed_not_alone", "deferral_time_not_positive"}

\* C9: a putinfo call that returns an error leaves the global topology, the
\* canonical records of the domains, the VCPU affinities and every local
\* scheduler as they were.
C9_RejectedChangesNothing ==
    [][ (nadjust' # nadjust /\ rc' \in {"EPERM", "EBUSY", "EINVAL"})
            => UNCHANGED << topoVars, domVars, schedVars >> ]_vars

\* A request was turned down while a configuration was installed and
\* tickets were running.
C9_Witness ==
    /\ rc \in {"EPERM", "EINVAL"}
    /\ num_of_cohorts > 0
    /\ \E c \in PoolCpus : InTable(c) # {}

\* ---------------------------------------------------------------------------
\* The reconfiguration protocol, step by step
\* ---------------------------------------------------------------------------
\* Positions of a CPU in __adjust_and_pause_this_cpu: "out" (not in the
\* routine), "entered", "barrier1", "publish" (between the barriers, about to
\* write), "barrier2", "paused", "left" (done with this reconfiguration).
involved_cpus == Cardinality(PoolCpus)

\* gang_adjust_global, putinfo, up to the cross-call of
\* __smp_adjust_and_pause: the permit, the new array and temporary topology,
\* the reset of the flags and of the counter, the params record, the IPIs.
AdjBegin(req) ==
    /\ panicked = "no"
    /\ initiator = "out"
    /\ nadjust < MaxAdjust
    /\ ValidRequest(req, dying)
    /\ nadjust' = nadjust + 1
    /\ overlap' = (overlap \/ querier = "body")
    /\ exec_count' = IF atomic_inc_and_test(exec_count) > 1
                     THEN exec_count - 1 ELSE exec_count + 1
    /\ IF atomic_inc_and_test(exec_count) > 1
       THEN /\ rc' = "EBUSY"
            /\ UNCHANGED << adj_smp_paused_count, adj_cpu_info, handler,
                            ipi_pending, initiator, params_live, buffers_live,
                            adj_conf, published >>
       ELSE /\ rc' = "none"
            /\ adj_conf' = NewConfiguration(dom_info, req, dying)
            /\ buffers_live' = TRUE
            /\ params_live' = TRUE
            /\ adj_cpu_info' = [c \in PoolCpus |-> [ack |-> 0, paused |-> 1]]
            /\ adj_smp_paused_count' = 0
            /\ ipi_pending' = [c \in PoolCpus |-> TRUE]
            /\ handler' = [c \in PoolCpus |->
                             IF handler[c] = "left" THEN "out" ELSE handler[c]]
            /\ published' = FALSE
            /\ initiator' = "calling"
    /\ UNCHANGED << clock, ticks, events, domVars, topoVars, schedVars,
                    cpuVars, faultVars, querier, timed_out, stale_read,
                    bad_write, early_rebuild >>
    /\ UNCHANGED toolVars

\* The cross-call interrupt reaches CPU c, which is not inside the routine.
TakeIpi(c) ==
    /\ panicked = "no"
    /\ ipi_pending[c]
    /\ handler[c] \in {"out", "left"}
    /\ ipi_pending' = [ipi_pending EXCEPT ![c] = FALSE]
    /\ handler' = [handler EXCEPT ![c] = "entered"]
    /\ UNCHANGED << timeVars, domVars, topoVars, schedVars, cpuVars, callVars,
                    faultVars, adj_smp_paused_count, adj_cpu_info, initiator,
                    querier, params_live, buffers_live, adj_conf, timed_out,
                    stale_read, bad_write, published, early_rebuild, overlap >>
    /\ UNCHANGED toolVars

\* on_selected_cpus(..., 0) returns once every selected CPU has taken the
\* interrupt; the initiator then waits for the counter.
CallReturns ==
    /\ panicked = "no"
    /\ initiator = "calling"
    /\ \A c \in PoolCpus : ~ ipi_pending[c]
    /\ initiator' = "waiting"
    /\ UNCHANGED << timeVars, domVars, topoVars, schedVars, cpuVars, callVars,
                    faultVars, adj_smp_paused_count, adj_cpu_info, handler,
                    ipi_pending, querier, params_live, buffers_live, adj_conf,
                    timed_out, stale_read, bad_write, published,
                    early_rebuild, overlap >>
    /\ UNCHANGED toolVars

\* __adjust_and_pause_this_cpu up to the loop of Barrier 1.
HandlerEnter(c) ==
    /\ panicked = "no"
    /\ handler[c] = "entered"
    /\ adj_cpu_info' = [adj_cpu_info EXCEPT ![c].ack = 1]
    /\ adj_smp_paused_count' = adj_smp_paused_count + 1
    /\ handler' = [handler EXCEPT ![c] = "barrier1"]
    /\ UNCHANGED << timeVars, domVars, topoVars, schedVars, cpuVars, callVars,
                    faultVars, ipi_pending, initiator, querier, params_live,
                    buffers_live, adj_conf, timed_out, stale_read, bad_write,
                    published, early_rebuild, overlap >>
    /\ UNCHANGED toolVars

\* What a CPU gets when it reads the params record or the buffers it points
\* to: the values written by the initiator while they exist; afterwards the
\* memory may still hold them, hold something else, or be unmapped.
ReadOutcomes(alive) ==
    IF alive THEN {"valid"} ELSE {"valid", "garbage", "crash"}

\* The loop of Barrier 1 ends: the CPU compares the counter with
\* num_of_involved_cpus and its id with designated_cpu_id, both read from
\* the params record.  A CPU that is not the designated one goes on to the
\* second increment.
Barrier1(c) ==
    /\ panicked = "no"
    /\ handler[c] = "barrier1"
    /\ \E o \in ReadOutcomes(params_live) \ {"crash"}, believes \in BOOLEAN :
        /\ o = "valid" => /\ adj_smp_paused_count >= involved_cpus
                          /\ believes = (c = designated_cpu_id)
        /\ handler' = [handler EXCEPT
                         ![c] = IF believes THEN "publish" ELSE "barrier2"]
        /\ adj_smp_paused_count' = IF believes THEN adj_smp_paused_count
                                   ELSE adj_smp_paused_count + 1
    /\ stale_read' = (stale_read \/ ~ params_live)
    /\ UNCHANGED << timeVars, domVars, topoVars, schedVars, cpuVars, callVars,
                    faultVars, adj_cpu_info, ipi_pending, initiator, querier,
                    params_live, buffers_live, adj_conf, timed_out, bad_write,
                    published, early_rebuild, overlap >>
    /\ UNCHANGED toolVars

\* Between the barriers: the CPU copies the temporary topology into the
\* global arrays, sets the affinity of every VCPU, then increments the
\* counter for the second time.
Publish(c) ==
    /\ panicked = "no"
    /\ handler[c] = "publish"
    /\ \E o \in ReadOutcomes(params_live /\ buffers_live) \ {"garbage"} :
        IF o = "crash"
        THEN /\ panicked' = "wild_pointer"
             /\ UNCHANGED << topoVars, processor, adj_smp_paused_count,
                             handler, bad_write, published >>
        ELSE /\ cohorts' = adj_conf.cohorts
             /\ cpu_2_cohort' = adj_conf.cpu_2_cohort
             /\ be_doms_in_cohort' = adj_conf.be_doms_in_cohort
             /\ num_of_cohorts' = adj_conf.num_of_cohorts
             /\ num_of_muxgroups' = adj_conf.num_of_muxgroups
             /\ bad_write' =
                  (\/ bad_write
                   \/ c # designated_cpu_id
                   \/ \E k \in PoolCpus : handler[k] \in {"out", "entered"}
                   \/ \E k \in PoolCpus : handler[k] \in {"paused", "left"})
             /\ IF SetupFits(adj_conf.arr)
                THEN /\ processor' = SetupVcpus(adj_conf.arr,
                                                Len(adj_conf.arr), processor)
                     /\ adj_smp_paused_count' = adj_smp_paused_count + 1
                     /\ handler' = [handler EXCEPT ![c] = "barrier2"]
                     /\ published' = (published \/ c = designated_cpu_id)
                     /\ UNCHANGED panicked
                ELSE /\ panicked' = "cpus_differ_from_vcpus"
                     /\ UNCHANGED << processor, adj_smp_paused_count, handler,
                                     published >>
    /\ stale_read' = (stale_read \/ ~ (params_live /\ buffers_live))
    /\ UNCHANGED << timeVars, dom_info, sched_priv, dying, schedVars, cpuVars,
                    callVars, heap_fault, adj_cpu_info, ipi_pending, initiator,
                    querier, params_live, buffers_live, adj_conf, timed_out,
                    early_rebuild, overlap >>
    /\ UNCHANGED toolVars

\* The loop of Barrier 2 ends and the CPU runs __update_local_sched_v0 with
\* the array, the time and the designated CPU read from the params record.
Barrier2(c) ==
    /\ panicked = "no"
    /\ handler[c] = "barrier2"
    /\ \E o \in ReadOutcomes(params_live /\ buffers_live) :
        /\ o = "valid" => adj_smp_paused_count >= 2 * involved_cpus
        /\ IF o = "crash"
           THEN /\ panicked' = "wild_pointer"
                /\ UNCHANGED << dom_info, sched_priv, schedVars, heap_fault,
                                handler, early_rebuild >>
           ELSE \E W \in {__update_local_sched_v0(c, World, adj_conf, clock,
                              designated_cpu_id, processor, dom_info)} :
                /\ dom_info' = W.dom_info
                /\ sched_priv' = W.sched_priv
                /\ tickets' = W.tickets
                /\ live' = W.live
                /\ runnable_Q' = W.runnable_Q
                /\ activation_Q' = W.activation_Q
                /\ waiting_4_event' = W.waiting_4_event
                /\ cur_ticket_per_cpu' = W.cur_ticket_per_cpu
                /\ heap_fault' = (heap_fault \/ W.fault)
                /\ panicked' = W.panic
                /\ handler' = [handler EXCEPT ![c] = "paused"]
                /\ early_rebuild' = (early_rebuild \/ ~ published)
    /\ stale_read' = (stale_read \/ ~ (params_live /\ buffers_live))
    /\ UNCHANGED << timeVars, processor, dying, topoVars, cpuVars, callVars,
                    adj_smp_paused_count, adj_cpu_info, ipi_pending, initiator,
                    querier, params_live, buffers_live, adj_conf, timed_out,
                    bad_write, published, overlap >>
    /\ UNCHANGED toolVars

\* The pause loop ends once the initiator has cleared the paused flag: the
\* CPU takes its two increments back, clears its ack flag and returns.
LeavePause(c) ==
    /\ panicked = "no"
    /\ handler[c] = "paused"
    /\ adj_cpu_info[c].paused = 0
    /\ adj_smp_paused_count' = adj_smp_paused_count - 2
    /\ adj_cpu_info' = [adj_cpu_info EXCEPT ![c].ack = 0]
    /\ handler' = [handler EXCEPT ![c] = "left"]
    /\ UNCHANGED << timeVars, domVars, topoVars, schedVars, cpuVars, callVars,
                    faultVars, ipi_pending, initiator, querier, params_live,
                    buffers_live, adj_conf, timed_out, stale_read, bad_write,
                    published, early_rebuild, overlap >>
    /\ UNCHANGED toolVars

\* The wait loop of __smp_adjust_and_pause ends, because the counter has
\* reached twice the number of CPUs or because the timeout has run out.  The
\* function returns, which ends the life of its params record; the
\* initiator then enters __smp_resume_after_adjust, raises the scheduler
\* softirq and clears every paused flag.
AdjustReturns(timeout) ==
    /\ panicked = "no"
    /\ initiator = "waiting"
    /\ timeout = (adj_smp_paused_count < 2 * involved_cpus)
    /\ timed_out' = (timed_out \/ timeout)
    /\ params_live' = FALSE
    /\ softirq' = [c \in PoolCpus |-> TRUE]
    /\ adj_cpu_info' = [c \in PoolCpus |-> [adj_cpu_info[c] EXCEPT !.paused = 0]]
    /\ initiator' = "resuming"
    /\ UNCHANGED << timeVars, domVars, topoVars, schedVars, timer, current,
                    hist, perturbed, callVars, faultVars, adj_smp_paused_count,
                    handler, ipi_pending, querier, buffers_live, adj_conf,
                    stale_read, bad_write, published, early_rebuild, overlap >>
    /\ UNCHANGED toolVars

\* The wait loop of __smp_resume_after_adjust ends, because the counter is
\* back to zero or by timeout; gang_adjust_global releases the request array
\* and the temporary topology arrays, gives the permit back and returns.
ResumeReturns(timeout) ==
    /\ panicked = "no"
    /\ initiator = "resuming"
    /\ timeout = (adj_smp_paused_count > 0)
    /\ timed_out' = (timed_out \/ timeout)
    /\ buffers_live' = FALSE
    /\ exec_count' = exec_count - 1
    /\ rc' = "OK"
    /\ initiator' = "out"
    /\ UNCHANGED << timeVars, domVars, topoVars, schedVars, cpuVars,
                    faultVars, adj_smp_paused_count, adj_cpu_info, handler,
                    ipi_pending, querier, params_live, adj_conf, stale_read,
                    bad_write, published, early_rebuild, overlap >>
    /\ UNCHANGED toolVars

\* A second caller enters gang_adjust_global with getinfo: the permit test,
\* then the body that copies the canonical records out.
QueryBegin ==
    /\ panicked = "no"
    /\ querier = "out"
    /\ events < MaxEvents
    /\ events' = events + 1
    /\ IF atomic_inc_and_test(exec_count) > 1
       THEN /\ exec_count' = exec_count - 1
            /\ UNCHANGED << querier, overlap >>
       ELSE /\ exec_count' = exec_count + 1
            /\ querier' = "body"
            /\ overlap' = (overlap \/ initiator # "out")
    /\ UNCHANGED << clock, ticks, nadjust, domVars, topoVars, schedVars,
                    cpuVars, rc, faultVars, adj_smp_paused_count, adj_cpu_info,
                    handler, ipi_pending, initiator, params_live, buffers_live,
                    adj_conf, timed_out, stale_read, bad_write, published,
                    early_rebuild >>
    /\ UNCHANGED toolVars

\* The second caller leaves through the exit path.
QueryEnd ==
    /\ panicked = "no"
    /\ querier = "body"
    /\ querier' = "out"
    /\ exec_count' = exec_count - 1
    /\ UNCHANGED << timeVars, domVars, topoVars, schedVars, cpuVars, rc,
                    faultVars, adj_smp_paused_count, adj_cpu_info, handler,
                    ipi_pending, initiator, params_live, buffers_live,
                    adj_conf, timed_out, stale_read, bad_write, published,
                    early_rebuild, overlap >>
    /\ UNCHANGED toolVars

NextAdj ==
    \/ \E req \in GoodRequests : AdjBegin(req)
    \/ \E c \in PoolCpus : TakeIpi(c)
    \/ CallReturns
    \/ \E c \in PoolCpus : HandlerEnter(c)
    \/ \E c \in PoolCpus : Barrier1(c)
    \/ \E c \in PoolCpus : Publish(c)
    \/ \E c \in PoolCpus : Barrier2(c)
    \/ \E c \in PoolCpus : LeavePause(c)
    \/ \E timeout \in BOOLEAN : AdjustReturns(timeout)
    \/ \E timeout \in BOOLEAN : ResumeReturns(timeout)
    \/ QueryBegin
    \/ QueryEnd

SpecAdj == Init /\ [][NextAdj]_vars

\* ---------------------------------------------------------------------------
\* Properties of the protocol
\* ---------------------------------------------------------------------------
\* C6: the global topology is written only by the designated CPU, after
\* every CPU of the pool has entered the routine and incremented the counter,
\* and before any CPU has passed Barrier 2.
C6_TopologyWrittenBetweenBarriers == ~ bad_write

\* C7: no CPU passes Barrier 2 and starts rebuilding its local scheduler
\* before the designated CPU has published the topology and the affinities of
\* this reconfiguration.
C7_NoRebuildBeforePublish == ~ early_rebuild

\* C8: two bodies of gang_adjust_global never execute at the same time, and
\* the permit counter never shows more than one holder.
C8_SinglePermit ==
    /\ ~ (initiator # "out" /\ querier = "body")
    /\ exec_count <= 1

\* C10: once a wait of the initiator has timed out, no CPU reads the params
\* record, the request array or the temporary topology after the end of their
\* life, and no CPU faults on them.
C10_LateCpusReadValidBuffers ==
    timed_out => (~ stale_read /\ panicked # "wild_pointer")

\* C11: when no wait of the initiator has timed out, the initiator goes on
\* to unblock the domains and to clear the paused flags, and a CPU leaves the
\* routine, only when every CPU of the pool has rebuilt its local scheduler
\* and sits in the pause loop (or has left it).
C11_ReleaseAfterAllRebuilt ==
    ( /\ ~ timed_out
      /\ \/ initiator = "resuming"
         \/ \E c \in PoolCpus : handler[c] = "left" )
    => \A k \in PoolCpus : handler[k] \in {"paused", "left"}

\* ---------------------------------------------------------------------------
\* The protocol under fair scheduling
\* ---------------------------------------------------------------------------
\* Requests whose installation hits no fatal check.
LiveRequests ==
    { << TT(1, {1}), TT(2, {1, 2}), TT(3, {2, 3}) >>,
      << BE(1, {1}), BE(2, {1, 2}), ET(3, {2, 3}) >> }

\* The steps of CPU c inside the adjustment routine.
HandlerStep(c) ==
    \/ TakeIpi(c)
    \/ HandlerEnter(c)
    \/ Barrier1(c)
    \/ Publish(c)
    \/ Barrier2(c)
    \/ LeavePause(c)

\* The steps of the initiator after the cross-call.  Its first wait ends
\* because the counter has reached twice the number of CPUs (the CPUs arrive
\* in time); the second wait ends on the counter or on its timeout.
InitiatorStep ==
    \/ CallReturns
    \/ AdjustReturns(FALSE)
    \/ \E timeout \in BOOLEAN : ResumeReturns(timeout)

NextLive ==
    \/ \E req \in LiveRequests : AdjBegin(req)
    \/ \E c \in PoolCpus : HandlerStep(c)
    \/ InitiatorStep

\* Every CPU keeps executing (interrupts are off inside the routine and the
\* loops only spin) and the loops of the initiator are bounded.
SpecAdjFair ==
    /\ Init
    /\ [][NextLive]_vars
    /\ \A c \in PoolCpus : WF_vars(HandlerStep(c))
    /\ WF_vars(InitiatorStep)

\* C12: once the cross-call of a reconfiguration is sent, every CPU of the
\* pool eventually has left the adjustment routine with its ack flag cleared
\* and the shared counter back to 0 (unless a fatal check stopped the host).
C12_EveryCpuLeaves ==
    (initiator = "calling")
        ~> \/ panicked # "no"
           \/ /\ \A c \in PoolCpus :
                    handler[c] = "left" /\ adj_cpu_info[c].ack = 0
              /\ adj_smp_paused_count = 0

\* ---------------------------------------------------------------------------
\* The library calls of xc_gang.c and the query of the configuration
\* ---------------------------------------------------------------------------
\* xc_get_cpumap_size: the bytes of a CPU bitmap.
cpumap_size == (NR_CPUS + 7) \div 8

\* bitmap[byte] & (1 << bit)
TestBit(byte, bit) == (byte \div (2 ^ bit)) % 2 = 1

\* bitmap[byte] |= (1 << bit)
OrBit(byte, bit) == IF TestBit(byte, bit) THEN byte ELSE byte + 2 ^ bit

\* array_to_bitmap: sets, in the bitmap it is given, the bit of every element
\* of the array.  The bytes of the bitmap are numbered from 1.
RECURSIVE array_to_bitmap(_, _, _)
array_to_bitmap(arr, arr_len, bitmap) ==
    IF arr_len = 0 THEN bitmap
    ELSE LET byte == arr[arr_len] \div 8
             bit == arr[arr_len] % 8
         IN  The({ [prev EXCEPT ![byte + 1] = OrBit(prev[byte + 1], bit)] :
                     prev \in {array_to_bitmap(arr, arr_len - 1, bitmap)} })

\* bitmap_to_array: the positions of the set bits, in increasing order.
RECURSIVE bitmap_to_array(_, _)
bitmap_to_array(bitmap, nr_bits) ==
    IF nr_bits = 0 THEN << >>
    ELSE LET i == nr_bits - 1
         IN  The({ IF TestBit(bitmap[(i \div 8) + 1], i % 8)
                   THEN Append(prev, i) ELSE prev :
                     prev \in {bitmap_to_array(bitmap, nr_bits - 1)} })

\* The bits of a xenctl bitmap, which is how an entry of a request holds it.
BitsOf(bitmap, nr_bits) ==
    { i \in 0 .. (nr_bits - 1) : TestBit(bitmap[(i \div 8) + 1], i % 8) }

\* cpumask_to_xenctl_bitmap: the bytes of the bitmap of a CPU mask.
RECURSIVE ByteOf(_)
ByteOf(S) ==
    IF S = {} THEN 0
    ELSE LET b == SetMin(S) IN 2 ^ b + ByteOf(S \ {b})
cpumask_to_xenctl_bitmap(mask) ==
    [k \in 1 .. cpumap_size |->
        ByteOf({ i % 8 : i \in { j \in mask : j \div 8 = k - 1 } })]

\* What a buffer of xc_hypercall_buffer_array_alloc holds before it is
\* written: copy_params_into_sysctl does not clear it (the query path does,
\* with bzero), so array_to_bitmap ORs into whatever the memory held.
MaxFreshByte == 15
HypercallBuffers == [1 .. cpumap_size -> 0 .. MaxFreshByte]

\* The CPU arrays of an entry of gang_sched_params_t.
MaxCpusInEntry == 2
CpuArrays ==
    UNION { [1 .. n -> PoolCpus] : n \in 0 .. MaxCpusInEntry }

\* copy_params_into_sysctl, one entry: the domain, the policy, and the
\* bitmap made from the CPU array in the buffer obtained for it.
copy_params_into_sysctl(pe, buffer) ==
    Entry(pe.domid,
          BitsOf(array_to_bitmap(pe.cpus, pe.num_of_cpus, buffer),
                 cpumap_size * 8),
          pe.type, pe.from, pe.period, pe.active_time)

\* The entries of gang_sched_params_t that copy_params_into_sysctl can turn
\* into the entry e of a request.
ParamsFor(e) ==
    { pe \in { [ domid |-> e.domid, cpus |-> a, num_of_cpus |-> Len(a),
                 type |-> e.type, from |-> e.from, period |-> e.period,
                 active_time |-> e.active_time ] : a \in CpuArrays } :
        \E buffer \in HypercallBuffers :
            copy_params_into_sysctl(pe, buffer) = e }

\* gang_adjust_global, getinfo: one entry per domain of the pool, made from
\* the copy of its canonical record.
getinfo(di, gone) ==
    LET infos == __get_all_domain_infos(di, gone)
    IN  [c \in 1 .. Len(infos) |->
            [ domid |-> infos[c].domid,
              cpumap |-> cpumask_to_xenctl_bitmap(infos[c].cpumask),
              type |-> infos[c].type, from |-> infos[c].from,
              period |-> infos[c].period,
              active_time |-> infos[c].active_time ]]

\* copy_sysctl_into_params: the CPU array of every entry from its bitmap.
copy_sysctl_into_params(src) ==
    [e \in 1 .. Len(src) |->
        LET cpus == bitmap_to_array(src[e].cpumap, cpumap_size * 8)
        IN  [ domid |-> src[e].domid, cpus |-> cpus,
              num_of_cpus |-> Len(cpus), type |-> src[e].type,
              from |-> src[e].from, period |-> src[e].period,
              active_time |-> src[e].active_time ]]

\* xc_sched_gang_params_get
xc_sched_gang_params_get(di, gone) == copy_sysctl_into_params(getinfo(di, gone))

SetOfArray(a) == { a[i] : i \in 1 .. Len(a) }

\* The entry pe of the parameters given to xc_sched_gang_params_set comes
\* back in the parameters got: same domain, same set of CPUs, same policy.
ComesBack(pe, got) ==
    \E g \in 1 .. Len(got) :
        /\ got[g].domid = pe.domid
        /\ SetOfArray(got[g].cpus) = SetOfArray(pe.cpus)
        /\ got[g].type = pe.type
        /\ got[g].from = pe.from
        /\ got[g].period = pe.period
        /\ got[g].active_time = pe.active_time

\* C13: after a putinfo that is accepted, the query of the same pool returns
\* for every domain named in the parameters the same set of CPUs and the same
\* policy type and parameters as the caller gave.
C13_RoundTrip ==
    [][ \A call \in Calls :
          (nadjust' # nadjust /\ rc' = "OK" /\ PutInfo(call[1], call[2]))
            => \A e \in 1 .. Len(call[1]) :
                 \A pe \in ParamsFor(call[1][e]) :
                    ComesBack(pe, xc_sched_gang_params_get(dom_info',
                                                           dying')) ]_vars

\* ---------------------------------------------------------------------------
\* The schedulability test of gangi_ctl (gs_sched_test.cc)
\* ---------------------------------------------------------------------------
\* A double of the test is kept exactly, as the two limbs of a multiple of
\* 2^-57: the value is (hi * 2^29 + lo) * 2^-57 with lo < 2^29.  Every
\* operation rounds its exact result to 53 significant bits, to nearest, ties
\* to even, which is what the double arithmetic of the machine does.
Limb == 2 ^ 29
MantissaBits == 53
DoubleZero == [hi |-> 0, lo |-> 0]
DoubleOne == [hi |-> 2 ^ 28, lo |-> 0]

RECURSIVE BitLen(_)
BitLen(n) == IF n = 0 THEN 0 ELSE 1 + BitLen(n \div 2)

\* The double nearest to (hi * 2^29 + lo) * 2^-57, or to a value just above
\* it when sticky says that the exact result has more bits below.
RoundDouble(hi, lo, sticky) ==
    LET len == IF hi > 0 THEN 29 + BitLen(hi) ELSE BitLen(lo)
        k == len - MantissaBits
    IN  IF k <= 0 THEN [hi |-> hi, lo |-> lo]
        ELSE LET low == lo % (2 ^ k)
                 half == 2 ^ (k - 1)
                 odd == (lo \div (2 ^ k)) % 2 = 1
                 up == low > half \/ (low = half /\ (sticky \/ odd))
                 lo2 == IF up THEN lo - low + 2 ^ k ELSE lo - low
             IN  IF lo2 >= Limb THEN [hi |-> hi + 1, lo |-> lo2 - Limb]
                 ELSE [hi |-> hi, lo |-> lo2]

\* Long division: the next digits of r / p, of the given widths in bits.
RECURSIVE LongDiv(_, _, _, _)
LongDiv(r, p, widths, q) ==
    IF widths = << >> THEN [q |-> q, r |-> r]
    ELSE LET n == r * 2 ^ Head(widths)
         IN  LongDiv(n % p, p, Tail(widths), q * 2 ^ Head(widths) + n \div p)

\* ((double) a) / p for a < p: the quotient to 57 binary places, rounded.
DivDouble(a, p) ==
    LET h == The({ LongDiv(a, p, << 14, 14 >>, 0) })
        l == The({ LongDiv(h.r, p, << 15, 14 >>, 0) })
    IN  RoundDouble(h.q, l.q, l.r # 0)

\* x + y
AddDouble(x, y) ==
    LET lo == x.lo + y.lo
    IN  RoundDouble(x.hi + y.hi + lo \div Limb, lo % Limb, FALSE)

\* x > y
GreaterDouble(x, y) == x.hi > y.hi \/ (x.hi = y.hi /\ x.lo > y.lo)

EINVAL == 22
\* INFINITY of gs_sched_test.h, the largest value of a time field.
GS_INFINITY == 2147483647

\* gs_dominfo_t
GsDomainInfo(domid, cpus, num_of_cpus, type, from, period, active_time, weight) ==
    [ domid |-> domid, cpus |-> cpus, num_of_cpus |-> num_of_cpus,
      type |-> type, from |-> from, period |-> period,
      active_time |-> active_time, weight |-> weight ]

__validate_muxing_policy(p) ==
    IF ~ VALIDATE_GANG_SCHED_POLICY_TYPE(p.type) THEN FALSE
    ELSE IF p.type = GANG_TIME_TRIG_MUXING
    THEN ~ (p.from = GS_INFINITY) /\ ~ (p.active_time >= p.period)
    ELSE IF p.type = GANG_EVENT_TRIG_MUXING
    THEN ~ (p.from = GS_INFINITY) /\ ~ (p.active_time >= p.period)
    ELSE IF p.type = GANG_BEST_EFFORT_MUXING
    THEN ~ (p.from = GS_INFINITY) /\ ~ (p.weight = 0)
    ELSE ~ (p.from = GS_INFINITY)

\* __validate_dominfos from domain d on: "valid", "invalid" (it returns
\* false) or "abort" (an assert on a CPU id fails in a build with asserts).
RECURSIVE __validate_dominfos(_, _, _, _, _)
__validate_dominfos(arr, d, len, cpu_count, ndebug) ==
    IF d > len THEN "valid"
    ELSE LET di == arr[d]
         IN  IF di.domid < 0 THEN "invalid"
             ELSE IF di.num_of_cpus < 0 \/ cpu_count < di.num_of_cpus
             THEN "invalid"
             ELSE IF \E c \in 1 .. di.num_of_cpus :
                        di.cpus[c] < 0 \/ cpu_count <= di.cpus[c]
             THEN IF ndebug THEN "invalid" ELSE "abort"
             ELSE IF ~ __validate_muxing_policy(di) THEN "invalid"
             ELSE __validate_dominfos(arr, d + 1, len, cpu_count, ndebug)

\* __populate_cpu2dom: the domains on every CPU; its asserts fail for a
\* domain without CPUs and for a domain inserted twice on a CPU.
__populate_cpu2dom(arr, len, cpu_count) ==
    [ asserts |->
        /\ \A d \in 1 .. len : arr[d].num_of_cpus > 0
        /\ \A d \in 1 .. len : \A c1, c2 \in 1 .. arr[d].num_of_cpus :
              c1 < c2 => arr[d].cpus[c1] # arr[d].cpus[c2]
        /\ \A d1, d2 \in 1 .. len :
              (d1 < d2 /\ arr[d1].domid = arr[d2].domid)
                => \A c1 \in 1 .. arr[d1].num_of_cpus :
                   \A c2 \in 1 .. arr[d2].num_of_cpus :
                      arr[d1].cpus[c1] # arr[d2].cpus[c2],
      cpu2dom |->
        [cpuid \in 0 .. (cpu_count - 1) |->
            { arr[d].domid : d \in { e \in 1 .. len :
                \E c \in 1 .. arr[e].num_of_cpus : arr[e].cpus[c] = cpuid } }] ]

\* The utilisation u of a domain.
DomainUtil(di, bedom_util) ==
    IF di.type = GANG_NO_MUXING THEN DoubleOne
    ELSE IF di.type = GANG_TIME_TRIG_MUXING
    THEN DivDouble(di.active_time, di.period)
    ELSE IF di.type = GANG_EVENT_TRIG_MUXING
    THEN DivDouble(di.active_time, di.period)
    ELSE bedom_util

\* The inner loop of the test: u is added on every CPU of the domain, the
\* best-effort share once per CPU.
RECURSIVE AddOnCpus(_, _, _, _)
AddOnCpus(di, c, u, acc) ==
    IF c > di.num_of_cpus THEN acc
    ELSE LET cpuid == di.cpus[c]
             add == [acc EXCEPT !.total_util_per_cpu[cpuid] = AddDouble(@, u)]
         IN  The({ AddOnCpus(di, c + 1, u, nxt) :
                     nxt \in {IF di.type = GANG_BEST_EFFORT_MUXING
                              THEN IF acc.bedom_considered_in_cpu[cpuid] = FALSE
                                   THEN [add EXCEPT
                                           !.bedom_considered_in_cpu[cpuid] = TRUE]
                                   ELSE acc
                              ELSE add} })

\* The outer loop of the test; asserts records whether u > 0.0 and u <= 1.0
\* held for every domain.
RECURSIVE TestLoop(_, _, _, _, _)
TestLoop(arr, d, len, bedom_util, acc) ==
    IF d > len THEN acc
    ELSE The({ TestLoop(arr, d + 1, len, bedom_util, nxt) :
                 nxt \in { [AddOnCpus(arr[d], 1, u, acc) EXCEPT
                              !.asserts = acc.asserts
                                  /\ GreaterDouble(u, DoubleZero)
                                  /\ ~ GreaterDouble(u, DoubleOne)] :
                           u \in {DomainUtil(arr[d], bedom_util)} } })

\* The report: the CPUs whose total exceeds 1.0, in increasing order, each
\* with the domains on it.
RECURSIVE TestReport(_, _, _, _)
TestReport(cpuid, cpu_count, total, cpu2dom) ==
    IF cpuid >= cpu_count THEN << >>
    ELSE (IF GreaterDouble(total[cpuid], DoubleOne)
          THEN << [cpu |-> cpuid, doms |-> cpu2dom[cpuid]] >> ELSE << >>)
         \o TestReport(cpuid + 1, cpu_count, total, cpu2dom)

Returned(rval, report) ==
    [status |-> "returned", rval |-> rval, report |-> report]
Aborted == [status |-> "aborted"]

\* are_schedulable; ndebug tells whether the asserts are compiled out.
are_schedulable(arr, len, be_reserve, be_basic_period, cpu_count, ndebug) ==
    IF cpu_count <= 0 THEN Returned(-EINVAL, << >>)
    ELSE IF be_reserve = 100 THEN Returned(1, << >>)
    ELSE IF be_reserve > 100 THEN Returned(-EINVAL, << >>)
    ELSE IF be_basic_period = 0 THEN Returned(-EINVAL, << >>)
    ELSE LET v == __validate_dominfos(arr, 1, len, cpu_count, ndebug)
         IN  IF v = "abort" THEN Aborted
             ELSE IF v = "invalid" THEN Returned(-EINVAL, << >>)
             ELSE LET m == The({ __populate_cpu2dom(arr, len, cpu_count) })
                      acc == The({ TestLoop(arr, 1, len,
                                 DivDouble(be_reserve, 100),
                                 [ total_util_per_cpu |->
                                     [c \in 0 .. (cpu_count - 1) |-> DoubleZero],
                                   bedom_considered_in_cpu |->
                                     [c \in 0 .. (cpu_count - 1) |-> FALSE],
                                   asserts |-> TRUE ]) })
                      report == The({ TestReport(0, cpu_count,
                                    acc.total_util_per_cpu, m.cpu2dom) })
                  IN  IF ~ ndebug /\ ~ (m.asserts /\ acc.asserts) THEN Aborted
                      ELSE Returned(IF report = << >> THEN 0 ELSE 1, report)

\* The inputs of the test.  A policy is the record of its type and of the
\* parameters of the four policy structures.
Policy(type, from, period, active_time, weight) ==
    [ type |-> type, from |-> from, period |-> period,
      active_time |-> active_time, weight |-> weight ]
NoMux == Policy(GANG_NO_MUXING, 0, 0, 0, 0)
TimeTrig(a, p) == Policy(GANG_TIME_TRIG_MUXING, 0, p, a, 0)
EventTrig(a, p) == Policy(GANG_EVENT_TRIG_MUXING, 0, p, a, 0)
BestEffort(w) == Policy(GANG_BEST_EFFORT_MUXING, 0, 0, 0, w)

DomainWith(domid, cpus, pol) ==
    GsDomainInfo(domid, cpus, Len(cpus), pol.type, pol.from, pol.period,
                 pol.active_time, pol.weight)

\* Arrays of at most n domains, domain i being the i-th, each with one of the
\* policies and one of the CPU arrays.
ArraysOf(n, policies, cpulists) ==
    { [i \in 1 .. Len(f) |-> DomainWith(i, f[i][2], f[i][1])] :
        f \in UNION { [1 .. k -> policies \X cpulists] : k \in 0 .. n } }

TestInput(arr, be_reserve, be_basic_period, cpu_count) ==
    [ arr |-> arr, len |-> Len(arr), be_reserve |-> be_reserve,
      be_basic_period |-> be_basic_period, cpu_count |-> cpu_count ]

MaxDoms == 4
\* Shares of tenths on two CPUs.
TenthInputs ==
    { TestInput(arr, r, 1, 2) :
        arr \in ArraysOf(MaxDoms,
                    { NoMux, TimeTrig(1, 10), TimeTrig(2, 10), TimeTrig(3, 10),
                      TimeTrig(4, 10), BestEffort(1) },
                    { << 0 >>, << 1, 0 >> }),
        r \in {0, 50} }

\* Event-triggered domains and other periods, other reserves.
MixedInputs ==
    { TestInput(arr, r, 1, 2) :
        arr \in ArraysOf(3,
                    { EventTrig(9, 14), TimeTrig(9, 28), EventTrig(1, 28),
                      BestEffort(2) },
                    { << 0 >>, << 1 >> }),
        r \in {10, 99} }

\* Inputs with one or two entries, defective ones among them.
DefectiveEntries ==
    { DomainWith(1, << 0 >>, TimeTrig(5, 10)),
      DomainWith(-1, << 0 >>, TimeTrig(5, 10)),
      DomainWith(2, << 5 >>, TimeTrig(5, 10)),
      DomainWith(2, << 0, 0 >>, TimeTrig(5, 10)),
      DomainWith(2, << >>, TimeTrig(5, 10)),
      DomainWith(2, << 1 >>, Policy(GANG_SCHED_POLICY_NOT_SET, 0, 10, 5, 1)),
      DomainWith(2, << 1 >>, Policy(NUM_OF_GANG_SCHED_POLICIES, 0, 10, 5, 1)),
      DomainWith(2, << 1 >>, TimeTrig(10, 10)),
      DomainWith(2, << 1 >>, EventTrig(0, 10)),
      DomainWith(2, << 1 >>, BestEffort(0)),
      DomainWith(2, << 1 >>, Policy(GANG_NO_MUXING, GS_INFINITY, 0, 0, 0)) }

DefectiveInputs ==
    { TestInput(arr, r, bp, n) :
        arr \in UNION { [1 .. k -> DefectiveEntries] : k \in 0 .. 2 },
        r \in {50, 100, 101}, bp \in {0, 1}, n \in {0, 2} }

TestInputs == TenthInputs \cup MixedInputs \cup DefectiveInputs

InitTest ==
    /\ InitSched
    /\ input \in TestInputs
    /\ output = NoOutput

\* A call of are_schedulable with the arguments of input, in a build with
\* asserts or without.
CallAreSchedulable(ndebug) ==
    /\ output = NoOutput
    /\ output' = are_schedulable(input.arr, input.len, input.be_reserve,
                                 input.be_basic_period, input.cpu_count,
                                 ndebug)
    /\ UNCHANGED << input, timeVars, domVars, topoVars, schedVars, cpuVars,
                    callVars, faultVars, adjVars >>

NextTest == \E ndebug \in BOOLEAN : CallAreSchedulable(ndebug)

SpecTest == InitTest /\ [][NextTest]_vars

\* What the interface takes for a well-formed input: a positive number of
\* CPUs, a reserve of at most 100, a positive basic period, and domains with
\* distinct non-negative identifiers, at least one CPU each, distinct CPU ids
\* in range, and a policy whose parameters are in range.
WellFormedPolicy(di) ==
    /\ VALIDATE_GANG_SCHED_POLICY_TYPE(di.type)
    /\ di.from # GS_INFINITY
    /\ di.type \in {GANG_TIME_TRIG_MUXING, GANG_EVENT_TRIG_MUXING}
          => (0 < di.active_time /\ di.active_time < di.period)
    /\ di.type = GANG_BEST_EFFORT_MUXING => di.weight >= 1

CpuIdsInRange(di, cpu_count) ==
    \A c \in 1 .. Len(di.cpus) : 0 <= di.cpus[c] /\ di.cpus[c] < cpu_count

WellFormedInput(in) ==
    /\ in.cpu_count > 0
    /\ in.be_reserve <= 100
    /\ in.be_basic_period > 0
    /\ \A d \in 1 .. in.len :
          /\ in.arr[d].domid >= 0
          /\ in.arr[d].num_of_cpus >= 1
          /\ CpuIdsInRange(in.arr[d], in.cpu_count)
          /\ \A c1, c2 \in 1 .. Len(in.arr[d].cpus) :
                c1 # c2 => in.arr[d].cpus[c1] # in.arr[d].cpus[c2]
          /\ WellFormedPolicy(in.arr[d])
    /\ \A d1, d2 \in 1 .. in.len :
          d1 # d2 => in.arr[d1].domid # in.arr[d2].domid

\* The utilisation of CPU c as a fraction: 1 for an exclusive domain,
\* active_time / period for a time- or event-triggered one, and the reserve
\* over 100 once if a best-effort domain is on the CPU.
OnCpu(in, c) ==
    { d \in 1 .. in.len : \E k \in 1 .. Len(in.arr[d].cpus) : in.arr[d].cpus[k] = c }

ExactUtil(in, c) ==
    LET muxed == SeqOfSet({ d \in OnCpu(in, c) :
                              in.arr[d].type # GANG_BEST_EFFORT_MUXING })
        share(d) == IF in.arr[d].type = GANG_NO_MUXING THEN << 1, 1 >>
                    ELSE << in.arr[d].active_time, in.arr[d].period >>
        be == IF \E d \in OnCpu(in, c) :
                    in.arr[d].type = GANG_BEST_EFFORT_MUXING
              THEN << in.be_reserve, 100 >> ELSE << 0, 1 >>
    IN  SumFractions(<< be >> \o [i \in 1 .. Len(muxed) |-> share(muxed[i])])

Overloaded(in) ==
    { c \in 0 .. (in.cpu_count - 1) : ExactUtil(in, c)[1] > ExactUtil(in, c)[2] }

\* C14: for a well-formed input with a reserve below 100, a call of the test
\* that returns gives 0 exactly when the utilisation of every CPU is at most
\* 1; otherwise it gives 1 and reports exactly the CPUs whose utilisation
\* exceeds 1, each with the domains on it.
C14_VerdictIsUtilisationBound ==
    ( /\ output.status = "returned"
      /\ WellFormedInput(input)
      /\ input.be_reserve < 100 )
    => /\ output.rval = (IF Overloaded(input) = {} THEN 0 ELSE 1)
       /\ { output.report[i].cpu : i \in 1 .. Len(output.report) }
             = Overloaded(input)
       /\ \A i \in 1 .. Len(output.report) :
             output.report[i].doms
                = { input.arr[d].domid : d \in OnCpu(input, output.report[i].cpu) }

\* The defects that the test has to turn down.
DefectiveInput(in) ==
    \/ in.cpu_count = 0
    \/ in.be_reserve > 100
    \/ in.be_basic_period = 0
    \/ \E d \in 1 .. in.len :
          \/ ~ WellFormedPolicy(in.arr[d])
          \/ in.arr[d].domid < 0
          \/ ~ CpuIdsInRange(in.arr[d], in.cpu_count)

\* C15: for an input with one of these defects the test returns a negative
\* error code, whatever the other arguments are.
C15_DefectsGetErrorCode ==
    (output.status # "none" /\ DefectiveInput(input))
        => (output.status = "returned" /\ output.rval < 0)

\* ---------------------------------------------------------------------------
\* The validation of a policy at putinfo, on its own
\* ---------------------------------------------------------------------------
\* Time values of the policies tried: around the finest grain and around
\* INFINITY.
MaxTime == 4
PolicyTimes == (0 .. MaxTime) \cup {INFINITY - 1, INFINITY}
MaxWeight == 2

PolicyInputs ==
    { Policy(t, 0, p, a, w) :
        t \in GANG_SCHED_POLICY_NOT_SET .. NUM_OF_GANG_SCHED_POLICIES,
        p \in PolicyTimes, a \in PolicyTimes, w \in 0 .. MaxWeight }

InitPolicy ==
    /\ InitSched
    /\ input \in PolicyInputs
    /\ output = NoOutput

\* The two checks of gang_adjust_global on the policy of an entry.
ValidatePolicy ==
    /\ output = NoOutput
    /\ output' = Returned(VALIDATE_GANG_SCHED_POLICY_TYPE(input.type)
                            /\ __validate_gang_sched_policy(input), << >>)
    /\ UNCHANGED << input, timeVars, domVars, topoVars, schedVars, cpuVars,
                    callVars, faultVars, adjVars >>

SpecPolicy == InitPolicy /\ [][ValidatePolicy]_vars

\* C16: the validation turns down every time-triggered or event-triggered
\* policy whose active time is the period or more, and takes one whose
\* active time is one grain below the period when both are above the grain.
C16_ActiveTimeBelowPeriod ==
    ( /\ output.status = "returned"
      /\ input.type \in {GANG_TIME_TRIG_MUXING, GANG_EVENT_TRIG_MUXING} )
    => /\ input.active_time >= input.period => ~ output.rval
       /\ ( /\ input.active_time = input.period - GANG_FINEST_TIME_GRAIN_IN_US
            /\ input.active_time > GANG_FINEST_TIME_GRAIN_IN_US
            /\ input.period < INFINITY )
          => output.rval

\* C17: the validation turns down every best-effort policy of weight 0 and
\* takes a best-effort policy of weight 1.
C17_WeightAtLeastOne ==
    ( /\ output.status = "returned"
      /\ input.type = GANG_BEST_EFFORT_MUXING )
    => /\ input.weight = 0 => ~ output.rval
       /\ input.weight = 1 => output.rval

\* ---------------------------------------------------------------------------
\* The cohorts and the muxgroups of a list of domains, on their own
\* ---------------------------------------------------------------------------
\* Lists of one to MaxMasks domains, each with a non-empty mask over the CPUs
\* 0 .. MaxTopoCpu, in the order in which the loop takes them.
MaxTopoCpu == 3
MaxMasks == 4
MaskLists ==
    UNION { [1 .. n -> { [cpumask |-> m] :
                           m \in (SUBSET (0 .. MaxTopoCpu)) \ {{}} }] :
            n \in 1 .. MaxMasks }

InitTopo ==
    /\ InitSched
    /\ input \in MaskLists
    /\ output = NoOutput

\* The first loop of __populate_cohorts_and_muxgroups: every domain of the
\* array is given to __add_dom_to_muxgroups and to __update_cohorts, which
\* start from cleared arrays.  The call does not return when
\* __add_dom_to_muxgroups hits its BUG_ON on the number of muxgroups.
PopulateTopology ==
    /\ output = NoOutput
    /\ \E cc \in {CohortsOf(input, Len(input))} :
       \E mm \in {MuxgroupsOf(input, Len(input))} :
          output' = [ status |-> IF mm.num > NR_CPUS THEN "panic"
                                 ELSE "returned",
                      cohorts |-> cc.cohorts, num_of_cohorts |-> cc.num,
                      muxgroups |-> mm.muxgroups,
                      num_of_muxgroups |-> mm.num,
                      cpu_2_muxgroup |-> mm.cpu_2_muxgroup ]
    /\ UNCHANGED << input, timeVars, domVars, topoVars, schedVars, cpuVars,
                    callVars, faultVars, adjVars >>

SpecTopo == InitTopo /\ [][PopulateTopology]_vars

\* The connected components of a set of masks under "share a CPU".
RECURSIVE Components(_)
Components(S) ==
    LET P == { p \in S \X S : p[1] # p[2] /\ p[1] \cap p[2] # {} }
    IN  IF P = {} THEN S
        ELSE LET p == CHOOSE q \in P : TRUE
             IN  Components((S \ {p[1], p[2]}) \cup {p[1] \cup p[2]})

MasksOf(list) == { list[i].cpumask : i \in 1 .. Len(list) }

\* C18: the cohorts computed for a list of masks are pairwise disjoint and
\* are exactly the connected components of the masks under "share a CPU".
C18_CohortsAreComponents ==
    output.status = "returned" =>
        /\ \A i, j \in 0 .. (output.num_of_cohorts - 1) :
              i # j => output.cohorts[i] \cap output.cohorts[j] = {}
        /\ { output.cohorts[k] : k \in 0 .. (output.num_of_cohorts - 1) }
              = Components(MasksOf(input))

\* The domains of the list whose mask includes CPU c.
MembersOn(list, c) == { i \in 1 .. Len(list) : c \in list[i].cpumask }

SameMuxgroup(out, c1, c2) ==
    \E k \in 0 .. (out.num_of_muxgroups - 1) :
        c1 \in out.muxgroups[k] /\ c2 \in out.muxgroups[k]

\* C19: the muxgroups computed for a list of domains are pairwise disjoint
\* and cover the CPUs of the masks, two CPUs are in the same muxgroup exactly
\* when the same domains include both, and every muxgroup lies within one
\* cohort.
C19_MuxgroupsAreMembershipClasses ==
    output.status = "returned" =>
        /\ \A i, j \in 0 .. (output.num_of_muxgroups - 1) :
              i # j => output.muxgroups[i] \cap output.muxgroups[j] = {}
        /\ UNION { output.muxgroups[k] :
                     k \in 0 .. (output.num_of_muxgroups - 1) }
              = UNION MasksOf(input)
        /\ \A c1, c2 \in UNION MasksOf(input) :
              SameMuxgroup(output, c1, c2)
                 <=> MembersOn(input, c1) = MembersOn(input, c2)
        /\ \A k \in 0 .. (output.num_of_muxgroups - 1) :
              \E n \in 0 .. (output.num_of_cohorts - 1) :
                  output.muxgroups[k] \subseteq output.cohorts[n]

\* ---------------------------------------------------------------------------
\* What a schedule decision returns
\* ---------------------------------------------------------------------------
\* The timer interrupt of the earliest timer is served late time units after
\* the expiry: the softirq runs and reads NOW() some time after the timer
\* has fired, so the now handed to gang_do_schedule lies at or after the
\* expiry and need not be a multiple of the grain.
MaxLate == 2
TickLate(late) ==
    /\ panicked = "no"
    /\ ticks < MaxTicks
    /\ \A c \in PoolCpus : ~ softirq[c] /\ timer[c] > clock
    /\ \E c \in PoolCpus : timer[c] < INFINITY
    /\ clock' = SetMin({ timer[c] : c \in PoolCpus }) + late
    /\ ticks' = ticks + 1
    /\ UNCHANGED << events, nadjust, domVars, topoVars, schedVars, cpuVars,
                    callVars, faultVars, adjVars, toolVars >>

\* The configurations installed while the timers are served late.
LateCalls ==
    { << << TT(1, {1}), TT(2, {1, 2}), TT(3, {2, 3}) >>, TRUE >>,
      << << TT(1, {2}), TTbig(2, {2, 3}), TTbig(3, {2, 3}) >>, TRUE >>,
      << << BE(1, {1}), BE(2, {1, 2}), ET(3, {2, 3}) >>, TRUE >> }

\* A time slice of zero arms the timer at now and the softirq runs again at
\* once; the number of decisions a CPU takes under one configuration is
\* capped.
MaxDecisions == 4
DoScheduleLate(c) ==
    /\ Len(hist[c]) < MaxDecisions
    /\ DoSchedule(c)

NextLate ==
    \/ \E c \in PoolCpus : DoScheduleLate(c)
    \/ \E late \in {0, MaxLate} : TickLate(late)
    \/ \E c \in PoolCpus : Yield(c)
    \/ \E call \in LateCalls : PutInfo(call[1], call[2])

SpecLate == Init /\ [][NextLate]_vars

\* CPU c has taken a decision in this step: its history of decisions has
\* grown by one.  Xen arms the timer of the CPU with now + ret.time, or
\* leaves it off for ret.time = -1.
Decided(c) == Len(hist'[c]) = Len(hist[c]) + 1

\* C20: every schedule decision that returns gives the idle VCPU or the VCPU
\* of the ticket installed for this CPU, and a time slice that is -1 (the
\* timer stays off) or strictly positive (the timer is armed after now),
\* never zero.
C20_DecisionReturned ==
    [][ \A c \in PoolCpus :
          (Decided(c) /\ panicked' = "no") =>
             /\ timer'[c] > clock
             /\ \/ current'[c] = IDLE
                \/ /\ cur_ticket_per_cpu'[c][c] # NULL
                   /\ current'[c] =
                        << cur_ticket_per_cpu'[c][c][2],
                           tickets'[cur_ticket_per_cpu'[c][c]].vcpu >> ]_vars

\* ---------------------------------------------------------------------------
\* A request that names only some of the domains
\* ---------------------------------------------------------------------------
NamedIn(req) == { req[e].domid : e \in 1 .. Len(req) }

\* The part of a canonical record a request can set.
Setting(rec) ==
    << rec.cpumask, rec.type, rec.from, rec.period, rec.active_time >>

\* A privileged, valid request that leaves out a domain of the pool.
PartialCall(call) ==
    /\ call[2]
    /\ ValidRequest(call[1], dying)
    /\ (DomIds \ dying) \ NamedIn(call[1]) # {}

\* C21: a valid putinfo that names only some of the domains of the pool
\* succeeds, and the CPU mask and the policy of every domain it does not
\* name are the same after it as before.
C21_PartialRequestOverlays ==
    [][ \A call \in Calls :
          (nadjust' # nadjust /\ PartialCall(call)
             /\ PutInfo(call[1], call[2]))
            => /\ rc' = "OK"
               /\ \A d \in (DomIds \ dying) \ NamedIn(call[1]) :
                     Setting(dom_info'[d]) = Setting(dom_info[d]) ]_vars

\* ---------------------------------------------------------------------------
\* The single-permit counter
\* ---------------------------------------------------------------------------
\* C22: whenever no call of gang_adjust_global is running, the permit
\* counter exec_count has its idle value 0, whatever exit the calls before
\* took.
C22_PermitBalanced ==
    (panicked = "no" /\ initiator = "out" /\ querier = "out")
        => exec_count = 0

\* ---------------------------------------------------------------------------
\* The current tickets of the CPUs of one cohort
\* ---------------------------------------------------------------------------
\* CPU c1 has taken its decision for the present time and CPU c2, of the
\* same cohort, takes its decision for that time in this step.
ArrivesAfter(c1, c2) ==
    /\ c1 # c2
    /\ cpu_2_cohort[c1] # NOCOHORT
    /\ cpu_2_cohort[c1] = cpu_2_cohort[c2]
    /\ hist[c1] # << >>
    /\ hist[c1][Len(hist[c1])] = clock
    /\ hist[c2] = << >> \/ hist[c2][Len(hist[c2])] < clock
    /\ Decided(c2)
    /\ panicked' = "no"

\* C23: a CPU that takes its decision after another CPU of its cohort has
\* taken the decision for the same time dispatches, for itself, the ticket
\* that the first CPU stored for it in cur_ticket_per_cpu.
C23_LaterArriversReadFirstTicket ==
    [][ \A c1, c2 \in PoolCpus :
          ArrivesAfter(c1, c2)
            => cur_ticket_per_cpu'[c2][c2] = cur_ticket_per_cpu[c1][c2] ]_vars

\* ---------------------------------------------------------------------------
\* The selection among the runnable tickets
\* ---------------------------------------------------------------------------
\* Configurations of time-triggered domains with one cohort, {1, 2, 3}: two
\* in which the third domain joins the cohorts of the first two, and one
\* with periods that differ and a first activation off the period boundary.
EdfCalls ==
    { << << TT(1, {1}), TT(2, {2, 3}), TT(3, {1, 2}) >>, TRUE >>,
      << << Entry(1, {1}, GANG_TIME_TRIG_MUXING, 0, 32, 8),
            TT(2, {2, 3}), TT(3, {1, 2}) >>, TRUE >>,
      << << TT(1, {1}),
            Entry(2, {1, 2}, GANG_TIME_TRIG_MUXING, 4, 16, 8),
            Entry(3, {2, 3}, GANG_TIME_TRIG_MUXING, 8, 32, 12) >>, TRUE >> }

NextEdf ==
    \/ \E c \in PoolCpus : DoSchedule(c)
    \/ Tick
    \/ \E call \in EdfCalls : PutInfo(call[1], call[2])

SpecEdf == Init /\ [][NextEdf]_vars

\* After a decision of CPU c that went through the pick loop: the tickets the
\* loop selected, and the tickets that were runnable and were not selected
\* (still in the runnable queue, or put back into the activation queue with
\* an earliest start time that has arrived).
SelectedBy(c) ==
    { cur_ticket_per_cpu'[c][i] : i \in CPUs } \ {NULL}

LeftBy(c) ==
    (runnable_Q'[c]
       \cup { t \in activation_Q'[c] :
                tickets'[t].earliest_start_time <= clock })
      \ SelectedBy(c)

\* t1 precedes t2 in the order of __cmp_tckt_deadlines.
EdfBefore(t1, t2) ==
    \/ tickets'[t1].deadline < tickets'[t2].deadline
    \/ /\ tickets'[t1].deadline = tickets'[t2].deadline
       /\ t1[2] < t2[2]

\* C24: in a decision that goes through the pick loop, a runnable ticket is
\* left unselected only if a ticket selected in that decision precedes it in
\* (deadline, domain id) order and has a CPU mask that overlaps its own.
C24_EdfSelection ==
    [][ \A c \in PoolCpus :
          (Decided(c) /\ ~ softirq'[c] /\ panicked' = "no"
             /\ num_of_cohorts # 0 /\ num_of_muxgroups # 0)
            => \A t \in LeftBy(c) :
                 \E s \in SelectedBy(c) :
                    /\ EdfBefore(s, t)
                    /\ dom_info[s[2]].cpumask \cap dom_info[t[2]].cpumask # {} ]_vars

\* ---------------------------------------------------------------------------
\* The time update of the running tickets
\* ---------------------------------------------------------------------------
\* The local scheduler of CPU c after __update_current_tickets at now =
\* NOW(), as a decision taken in this state would compute it.
UpdatedAt(c) ==
    __update_current_tickets(NR_CPUS,
        [ rq |-> runnable_Q[c], aq |-> activation_Q[c],
          cur |-> cur_ticket_per_cpu[c], tk |-> tickets,
          checked |-> {}, panic |-> "no", fault |-> FALSE ],
        clock, dom_info, be_doms_in_cohort, live, "stale")

\* The tickets of multiplexed domains that CPU c holds as running.
RunningMuxed(c) ==
    { t \in { cur_ticket_per_cpu[c][i] : i \in CPUs } \ {NULL} :
        /\ t \in live
        /\ dom_info[t[2]].type \in { GANG_TIME_TRIG_MUXING,
                                     GANG_EVENT_TRIG_MUXING,
                                     GANG_BEST_EFFORT_MUXING } }

Spent(t) == MAX(0, clock - tickets[t].activated_at)
Reduced(t) == tickets[t].remaining_time - Spent(t)

\* The remaining time a re-armed ticket of domain d starts with.
FreshBudget(d) ==
    IF dom_info[d].type = GANG_BEST_EFFORT_MUXING THEN __quantum_4_be_doms
    ELSE dom_info[d].active_time

\* C25: the update of a running multiplexed ticket at time now takes
\* max(0, now - activated_at) off its remaining time; if the result is below
\* MARGIN the ticket is re-armed (later deadline, fresh remaining time),
\* otherwise its earliest start time and deadline stay; the ticket ends in
\* the activation queue and its remaining time is never negative.
C25_UpdateOfRunningTicket ==
    panicked = "no" =>
      \A c \in PoolCpus : \A u \in {UpdatedAt(c)} :
        u.panic = "no" =>
          \A t \in RunningMuxed(c) :
            /\ t \in u.aq
            /\ u.tk[t].remaining_time >= 0
            /\ IF Reduced(t) < MARGIN
               THEN /\ u.tk[t].deadline > tickets[t].deadline
                    /\ u.tk[t].remaining_time = FreshBudget(t[2])
               ELSE /\ u.tk[t].remaining_time = Reduced(t)
                    /\ u.tk[t].deadline = tickets[t].deadline
                    /\ u.tk[t].earliest_start_time
                         = tickets[t].earliest_start_time

\* A running ticket whose timer was served late: more time has been spent
\* than the ticket had left.
C25_Witness ==
    /\ panicked = "no"
    /\ \E c \in PoolCpus : \E t \in RunningMuxed(c) :
          /\ UpdatedAt(c).panic = "no"
          /\ Reduced(t) < 0

\* ---------------------------------------------------------------------------
\* The time values of time-triggered tickets
\* ---------------------------------------------------------------------------
\* The tickets of time-triggered domains that a local scheduler holds.
TimeTriggered ==
    { t \in live : dom_info[t[2]].type = GANG_TIME_TRIG_MUXING }

\* C26: after a reconfiguration every time-triggered ticket has
\* deadline = earliest_start_time + period, an earliest start time that is
\* from plus a whole number of periods, and at most active_time left.
C26_TimeTriggeredOnPeriod ==
    (panicked = "no" /\ rc = "OK") =>
        \A t \in TimeTriggered :
            /\ tickets[t].deadline
                 = tickets[t].earliest_start_time + dom_info[t[2]].period
            /\ (tickets[t].earliest_start_time - dom_info[t[2]].from)
                 % dom_info[t[2]].period = 0
            /\ tickets[t].remaining_time <= dom_info[t[2]].active_time

\* A ticket with a first activation off the period boundary has run and has
\* been re-armed for a later period.
C26_Witness ==
    /\ panicked = "no" /\ rc = "OK"
    /\ \E t \in TimeTriggered :
          /\ dom_info[t[2]].from # 0
          /\ tickets[t].activated_at <= clock
          /\ tickets[t].earliest_start_time > clock
          /\ tickets[t].remaining_time = dom_info[t[2]].active_time

\* ---------------------------------------------------------------------------
\* The re-arming of best-effort tickets
\* ---------------------------------------------------------------------------
\* The best-effort tickets CPU c holds as running whose activation is
\* complete at the present time.
CompletedBestEffort(c) ==
    { t \in RunningMuxed(c) :
        /\ dom_info[t[2]].type = GANG_BEST_EFFORT_MUXING
        /\ Reduced(t) < MARGIN }

\* The best-effort domains of the cohort of CPU c.
BestEffortIn(c) ==
    { d \in DomIds \ dying :
        /\ dom_info[d].type = GANG_BEST_EFFORT_MUXING
        /\ dom_info[d].cpumask \subseteq cohorts[cpu_2_cohort[c]] }

\* Configurations with best-effort domains only: one cohort with three of
\* them, three cohorts with one each, one cohort with two and one with one.
BeCalls ==
    { << << BE(1, {1}), BE(2, {1, 2}), BE(3, {2, 3}) >>, TRUE >>,
      << << BE(1, {1}), BE(2, {2}), BE(3, {3}) >>, TRUE >>,
      << << BE(1, {1}), BE(2, {1}), BE(3, {2, 3}) >>, TRUE >> }

NextBe ==
    \/ \E c \in PoolCpus : DoScheduleLate(c)
    \/ \E late \in {0, MaxLate} : TickLate(late)
    \/ \E call \in BeCalls : PutInfo(call[1], call[2])

SpecBe == Init /\ [][NextBe]_vars

ShortCalls ==
    { << << Entry(1, {1}, GANG_TIME_TRIG_MUXING, 0, 16, 1),
            TT(2, {1, 2}), TT(3, {2, 3}) >>, TRUE >>,
      << << TT(1, {1}), Entry(2, {2, 3}, GANG_EVENT_TRIG_MUXING, 0, 8, 1),
            TT(3, {1, 2}) >>, TRUE >>,
      << << TT(1, {1}), TT(2, {1, 2}), TT(3, {2, 3}) >>, TRUE >> }

NextShort ==
    \/ \E c \in PoolCpus : DoSchedule(c)
    \/ Tick
    \/ \E call \in ShortCalls : PutInfo(call[1], call[2])

SpecShort == Init /\ [][NextShort]_vars

\* The tickets of multiplexed domains in the EDF queue of CPU c.
MuxedRunnable(c) ==
    { t \in runnable_Q[c] :
        t \in live /\ dom_info[t[2]].type # GANG_NO_MUXING }

\* C28: for every policy the validation accepts and every sequence of
\* decisions, each ticket of a multiplexed domain in the EDF queue has
\* MARGIN <= remaining_time < INFINITY, and the fatal checks on the remaining
\* time at selection are never hit.
C28_RemainingTimeInRange ==
    /\ panicked \notin { "time_below_margin", "muxed_infinite_time" }
    /\ (panicked = "no" /\ rc = "OK") =>
          \A c \in PoolCpus : \A t \in MuxedRunnable(c) :
             /\ MARGIN <= tickets[t].remaining_time
             /\ tickets[t].remaining_time < INFINITY

\* ---------------------------------------------------------------------------
\* The first step of a decision
\* ---------------------------------------------------------------------------
\* The local scheduler of CPU c after __update_sched_info at now = NOW().
SchedInfoAt(c) ==
    __update_sched_info(
        [ rq |-> runnable_Q[c], aq |-> activation_Q[c],
          cur |-> cur_ticket_per_cpu[c], tk |-> tickets,
          checked |-> {}, panic |-> "no", fault |-> FALSE ],
        clock, dom_info, be_doms_in_cohort, live, "stale")

\* C29: after the first step of a decision at time now, no ticket with
\* earliest_start_time <= now is left in the activation queue, every such
\* ticket is in the EDF queue, no ticket with earliest_start_time > now has
\* moved, and the head activation time is the earliest_start_time of the new
\* head of the activation queue, or INFINITY when the queue is empty.
C29_DueTicketsMoved ==
    panicked = "no" =>
      \A c \in PoolCpus : \A u \in {UpdatedAt(c)} : \A r \in {SchedInfoAt(c)} :
        r.panic = "no" =>
          /\ \A t \in r.aq : r.tk[t].earliest_start_time > clock
          /\ \A t \in u.aq : r.tk[t].earliest_start_time <= clock => t \in r.rq
          /\ \A t \in u.aq : r.tk[t].earliest_start_time > clock => t \in r.aq
          /\ r.rq \ u.rq \subseteq u.aq
          /\ r.earliest_actv
               = IF r.aq = {} THEN INFINITY
                 ELSE SetMin({ r.tk[t].earliest_start_time : t \in r.aq })

\* CPU c is about to decide with a ticket that starts exactly now and one
\* that stays in the activation queue as its new head.
C29_Witness ==
    /\ panicked = "no"
    /\ \E c \in PoolCpus :
          /\ softirq[c]
          /\ SchedInfoAt(c).panic = "no"
          /\ \E t \in activation_Q[c] : tickets[t].earliest_start_time = clock
          /\ \E t \in SchedInfoAt(c).aq :
                SchedInfoAt(c).earliest_actv
                   = SchedInfoAt(c).tk[t].earliest_start_time

\* ---------------------------------------------------------------------------
\* The tickets the pick loop puts back
\* ---------------------------------------------------------------------------
\* C30: a ticket taken from the EDF queue whose CPUs overlap the CPUs already
\* assigned returns to the activation queue keyed by
\* tval = max(deadline - remaining_time, now + 1 ms): at the end of a
\* decision every ticket of the activation queue of the CPU has a start time
\* later than now.
C30_DeferredStartsLater ==
    [][ \A c \in PoolCpus :
          (Decided(c) /\ panicked' = "no")
            => \A t \in activation_Q'[c] :
                  tickets'[t].earliest_start_time > clock ]_vars

\* ---------------------------------------------------------------------------
\* A decision taken while a tasklet is pending
\* ---------------------------------------------------------------------------
\* CPU c has taken a decision for a tasklet in this step (Xen keeps the
\* softirq raised until the tasklet is done).
DecidedForTasklet(c) ==
    /\ Decided(c)
    /\ softirq'[c]
    /\ num_of_cohorts # 0
    /\ num_of_muxgroups # 0

\* C31: with a tasklet pending the decision selects the idle VCPU and ends the
\* slice at the earliest activation time captured by __update_sched_info: the
\* time returned is earliest_actv - now, and -1 (timer off) only when the
\* activation queue is empty.
C31_TaskletSliceEndsAtActivation ==
    [][ \A c \in PoolCpus : \A r \in {SchedInfoAt(c)} :
          (DecidedForTasklet(c) /\ panicked' = "no")
            => /\ current'[c] = IDLE
               /\ timer'[c] = IF r.aq = {} THEN INFINITY
                              ELSE r.earliest_actv ]_vars

\* ---------------------------------------------------------------------------
\* The end of the time slice
\* ---------------------------------------------------------------------------
\* The tickets the decision of CPU c has installed in this step (the table is
\* zeroed by __update_sched_info, so every entry is of this decision).
SelectedIn(c) == { cur_ticket_per_cpu'[c][i] : i \in CPUs } \ {NULL}

\* C32: for every decision that returns a finite time, now + time is a
\* multiple of the grain unless it was clamped to now, is no later than
\* now + remaining_time of every ticket selected in the decision, and no later
\* than the earliest activation time captured by __update_sched_info.
C32_SliceWithinBudget ==
    [][ \A c \in PoolCpus : \A r \in {SchedInfoAt(c)} :
          (Decided(c) /\ ~ softirq'[c] /\ panicked' = "no"
             /\ timer'[c] < INFINITY)
            => /\ timer'[c] >= clock
               /\ timer'[c] % GANG_FINEST_TIME_GRAIN = 0 \/ timer'[c] = clock
               /\ \A t \in SelectedIn(c) :
                     timer'[c] <= clock + tickets'[t].remaining_time
               /\ timer'[c] <= r.earliest_actv ]_vars

\* A CPU has just decided at a time off the grain and its slice ends, by the
\* rounding, before the budget of the ticket it selected is used up.
C32_Witness ==
    /\ panicked = "no"
    /\ clock % GANG_FINEST_TIME_GRAIN # 0
    /\ \E c \in PoolCpus :
          /\ hist[c] # << >>
          /\ hist[c][Len(hist[c])] = clock
          /\ ~ softirq[c]
          /\ clock < timer[c] /\ timer[c] < INFINITY
          /\ \E i \in CPUs :
                /\ cur_ticket_per_cpu[c][i] # NULL
                /\ tickets[cur_ticket_per_cpu[c][i]].activated_at = clock
                /\ timer[c] < clock
                     + tickets[cur_ticket_per_cpu[c][i]].remaining_time

\* ---------------------------------------------------------------------------
\* The yield of a single VCPU
\* ---------------------------------------------------------------------------
\* gang_yield on the VCPU that runs on CPU c, whatever the number of events
\* so far: the flag is set on the ticket of the VCPU and Xen raises the
\* scheduler softirq.
YieldNow(c) ==
    /\ panicked = "no"
    /\ current[c] # IDLE
    /\ sched_priv[current[c]] # NULL
    /\ ~ tickets[sched_priv[current[c]]].yield
    /\ tickets' = [tickets EXCEPT ![sched_priv[current[c]]].yield = TRUE]
    /\ softirq' = [softirq EXCEPT ![c] = TRUE]
    /\ UNCHANGED << clock, ticks, events, nadjust, domVars, topoVars,
                    runnable_Q, activation_Q, waiting_4_event,
                    cur_ticket_per_cpu, live, timer, current, hist, perturbed,
                    callVars, faultVars, adjVars, toolVars >>

\* Configurations with time-triggered domains and with an exclusive one.
YieldCalls ==
    { << << EX(1, {2}), TT(2, {1, 3}), TT(3, {1, 3}) >>, TRUE >> }

NextYield ==
    \/ \E c \in PoolCpus : DoScheduleLate(c)
    \/ Tick
    \/ \E c \in PoolCpus : YieldNow(c)
    \/ \E call \in YieldCalls : PutInfo(call[1], call[2])

SpecYield == Init /\ [][NextYield]_vars

\* The ticket of the VCPU that runs on CPU c carries the yield flag.
YieldPending(c) ==
    /\ current[c] # IDLE
    /\ sched_priv[current[c]] # NULL
    /\ tickets[sched_priv[current[c]]].yield

\* C33: the yield flag gang_yield sets on the ticket of a VCPU is cleared by
\* the next decision on the CPU of that VCPU, whichever path the decision
\* takes, and the VCPU of an exclusive domain is not replaced because of a
\* yield.
C33_YieldLastsOneDecision ==
    [][ \A c \in PoolCpus :
          (Decided(c) /\ panicked' = "no" /\ YieldPending(c))
            => /\ ~ tickets'[sched_priv[current[c]]].yield
               /\ (/\ dom_info[current[c][1]].type = GANG_NO_MUXING
                   /\ ~ softirq'[c]
                   /\ cur_ticket_per_cpu'[c][c] = sched_priv[current[c]])
                     => current'[c] = current[c] ]_vars

\* ---------------------------------------------------------------------------
\* Event-triggered domains
\* ---------------------------------------------------------------------------
\* The tickets of event-triggered domains.
EventTriggered ==
    { t \in live : dom_info[t[2]].type = GANG_EVENT_TRIG_MUXING }

\* C34: the ticket of an event-triggered domain becomes runnable only after
\* an external wakeup.  gang_wake is empty and no other code delivers a
\* wakeup, so the ticket stays out of the activation queue, of the EDF queue
\* and of the current-ticket table, and its VCPU is never selected.
C34_EventTriggeredWaitsForWakeup ==
    (panicked = "no" /\ rc = "OK") =>
       \A c \in PoolCpus :
          /\ \A t \in EventTriggered :
                /\ t \notin activation_Q[c]
                /\ t \notin runnable_Q[c]
                /\ \A i \in CPUs : cur_ticket_per_cpu[c][i] # t
          /\ current[c] # IDLE =>
                dom_info[current[c][1]].type # GANG_EVENT_TRIG_MUXING

\* ---------------------------------------------------------------------------
\* The local schedulers after a reconfiguration
\* ---------------------------------------------------------------------------
\* A reconfiguration has been carried out in this step.
Reconfigured == nadjust' # nadjust /\ rc' = "OK" /\ panicked' = "no"

\* The EDF queue, the waiting-for-event set and the current-ticket table of
\* CPU c are empty after the step and the tickets of its activation queue
\* are fresh.
Drained(c) ==
    /\ runnable_Q'[c] = {}
    /\ waiting_4_event'[c] = {}
    /\ \A i \in CPUs : cur_ticket_per_cpu'[c][i] = NULL
    /\ \A t \in activation_Q'[c] :
          /\ t \in live'
          /\ tickets'[t].activated_at = gang_alloc_vdata.activated_at
          /\ ~ tickets'[t].yield

\* The domains of the new configuration with CPU c in their mask.
Touching(c) == { d \in DomIds \ dying' : c \in dom_info'[d].cpumask }

\* The domains of the new configuration in the cohort of CPU c.
InCohortOf(c) ==
    { d \in DomIds \ dying' : dom_info'[d].cohort = cpu_2_cohort'[c] }

\* C35: after the rebuild the EDF queue, the waiting-for-event set and the
\* current-ticket table of a CPU are empty and its activation queue holds
\* exactly one fresh ticket for each domain of the new configuration that
\* touches this CPU.
C35_OneTicketPerTouchingDomain ==
    [][ Reconfigured =>
          \A c \in PoolCpus :
             /\ Drained(c)
             /\ activation_Q'[c] = { << c, d >> : d \in Touching(c) } ]_vars

\* C35, amended: the activation queue holds exactly one fresh ticket for each
\* domain of the cohort of the CPU, whether or not the domain has this CPU
\* in its mask; the other containers are empty.
C35_OneTicketPerCohortDomain ==
    [][ Reconfigured =>
          \A c \in PoolCpus :
             /\ Drained(c)
             /\ activation_Q'[c] = { << c, d >> : d \in InCohortOf(c) } ]_vars

\* A second reconfiguration has just been carried out and a CPU holds the
\* ticket of a domain of its cohort that does not run on it.
C35_Witness ==
    /\ panicked = "no" /\ rc = "OK" /\ nadjust = MaxAdjust
    /\ \A c \in PoolCpus :
          /\ runnable_Q[c] = {}
          /\ \A i \in CPUs : cur_ticket_per_cpu[c][i] = NULL
          /\ \A t \in activation_Q[c] :
                tickets[t].activated_at = gang_alloc_vdata.activated_at
    /\ \E c \in PoolCpus : \E t \in activation_Q[c] :
          c \notin dom_info[t[2]].cpumask

\* ---------------------------------------------------------------------------
\* The first activation time after a reconfiguration
\* ---------------------------------------------------------------------------
\* The smallest multiple of the grain that is not below x.
CeilToGrain(x) ==
    ((x + GANG_FINEST_TIME_GRAIN - 1) \div GANG_FINEST_TIME_GRAIN)
        * GANG_FINEST_TIME_GRAIN

\* C36: the first activation time the rebuild uses is
\* will_resume_at = ceil((now + adj_upper_bound) / grain) * grain, the smallest
\* multiple of the grain >= now + adj_upper_bound, also when that sum is a
\* multiple of the grain, and every ticket the rebuild seeds has
\* earliest_start_time >= will_resume_at.
C36_WillResumeAtIsCeiling ==
    [][ Reconfigured =>
          /\ will_resume_at(clock) = CeilToGrain(clock + __adj_time_upper_bound)
          /\ \A c \in PoolCpus : \A t \in activation_Q'[c] :
                tickets'[t].earliest_start_time >= will_resume_at(clock) ]_vars

\* ---------------------------------------------------------------------------
\* __adjust_activation_time as a function of its arguments
\* ---------------------------------------------------------------------------
\* Start times, activation times (the 'from' of a policy, an unsigned 64-bit
\* value of the caller read as s_time_t) and periods (any value the
\* validation accepts).
StartTimes == { 1, 4, 17, 404, 416, 420 }
ActvTimes == { - (INFINITY + 1), -3, 0, 1, 5, 16, 400, 404, 416, 421,
               INFINITY }
Periods == { 1, 3, 16, 400, INFINITY - 1 }

InitActv ==
    /\ InitSched
    /\ input \in { [ start_at |-> a, actv_time |-> f, period |-> p ] :
                     a \in StartTimes, f \in ActvTimes, p \in Periods }
    /\ output = NoOutput

\* A call of __adjust_activation_time.  A signed overflow is undefined: the
\* call returns the value reduced to 64 bits or the build traps.
AdjustActivationTime ==
    /\ output = NoOutput
    /\ \E trap \in BOOLEAN :
          /\ trap => AdjustOverflows(input.start_at, input.actv_time,
                                     input.period)
          /\ output' =
               IF trap THEN [ status |-> "trap" ]
               ELSE [ status |-> "returned",
                      value |-> __adjust_activation_time(input.start_at,
                                   input.actv_time, input.period) ]
    /\ UNCHANGED << input, timeVars, domVars, topoVars, schedVars, cpuVars,
                    callVars, faultVars, adjVars >>

SpecActv == InitActv /\ [][AdjustActivationTime]_vars

\* C37: __adjust_activation_time(start_at, from, period) with period > 0
\* returns from when from >= start_at, and otherwise the value
\* r = from + k * period, k a positive integer, with
\* start_at <= r < start_at + period; applied to its own result it returns
\* the same value.
C37_AdjustActivationTime ==
    output # NoOutput =>
       /\ output.status = "returned"
       /\ \A r \in {output.value} :
            /\ input.actv_time >= input.start_at => r = input.actv_time
            /\ input.actv_time < input.start_at =>
                  /\ r > input.actv_time
                  /\ (r - input.actv_time) % input.period = 0
                  /\ input.start_at <= r
                  /\ r < input.start_at + input.period
            /\ __adjust_activation_time(input.start_at, r, input.period) = r

\* ---------------------------------------------------------------------------
\* The release of the tickets of a local scheduler
\* ---------------------------------------------------------------------------
\* The tickets the local scheduler of CPU c owns.
Owned(c) ==
    runnable_Q[c] \cup activation_Q[c] \cup waiting_4_event[c]
        \cup ({ cur_ticket_per_cpu[c][i] : i \in CPUs } \ {NULL})

\* The release of the tickets of CPU c when the walk reads the canonical
\* masks as view holds them.
DrainOf(c, view) == __deinit_sched_info(LocalSched(c), view, live)

\* C38: the drain of a local scheduler frees every ticket it owns exactly
\* once, also a running ticket that several slots of the current-ticket
\* table refer to, and also when the designated CPU rewrites the canonical
\* mask of the ticket's domain while the drain runs on another CPU.
C38_DrainFreesEachTicketOnce ==
    [][ (nadjust' # nadjust /\ rc' = "OK" /\ ~ heap_fault) =>
          /\ ~ heap_fault'
          /\ \A c \in PoolCpus :
               \A view \in IF c = designated_cpu_id THEN {dom_info}
                           ELSE {dom_info, dom_info'} :
               \A dn \in {DrainOf(c, view)} :
                  /\ ~ dn.twice
                  /\ dn.freed = Owned(c) ]_vars

\* ---------------------------------------------------------------------------
\* The removal of a VCPU
\* ---------------------------------------------------------------------------
\* gang_remove_vcpu has run for VCPU dv in this step (gang_free_vdata then
\* releases its ticket).
Removed(dv) ==
    /\ nadjust' = nadjust
    /\ sched_priv[dv] # NULL
    /\ sched_priv[dv] \in live
    /\ sched_priv[dv] \notin live'

\* A VCPU is removed while its ticket is in any of the containers: a VCPU
\* that has yielded is off its CPU with its ticket still in the
\* current-ticket table.
RemoveCalls ==
    { << << TT(1, {1}), TT(2, {1, 2}), TT(3, {2, 3}) >>, TRUE >> }

NextRemove ==
    \/ \E c \in PoolCpus : DoScheduleLate(c)
    \/ Tick
    \/ \E c \in PoolCpus : YieldNow(c)
    \/ \E dv \in Vcpus : RemoveVcpu(dv)
    \/ \E call \in RemoveCalls : PutInfo(call[1], call[2])

SpecRemove == Init /\ [][NextRemove]_vars

\* C39: after gang_remove_vcpu for a VCPU that is not an idle VCPU, the
\* ticket of the VCPU is in none of the EDF queue, the activation queue, the
\* waiting-for-event set and the current-ticket table of its CPU, whatever
\* held it before the call.
C39_RemovedTicketIsNowhere ==
    [][ \A dv \in Vcpus :
          Removed(dv) =>
            \A c \in {processor[dv]} : \A t \in {sched_priv[dv]} :
               /\ t \notin runnable_Q'[c]
               /\ t \notin activation_Q'[c]
               /\ t \notin waiting_4_event'[c]
               /\ \A i \in CPUs : cur_ticket_per_cpu'[c][i] # t ]_vars

\* ---------------------------------------------------------------------------
\* The initialisation of the scheduler (gang_init)
\* ---------------------------------------------------------------------------
MIN_CPU_RESERV_4_BE_DOMAINS == 0
MAX_CPU_RESERV_4_BE_DOMAINS == 100
\* ms_2_ns(10) and ms_2_ns(500), with ms_2_ns(1) = GANG_FINEST_TIME_GRAIN
MIN_ADJ_TIME_UPPER_BOUND == 40
MAX_ADJ_TIME_UPPER_BOUND == 2000

\* gang_init as a function of the three boot-parameter variables.  The call
\* does not return when the quantum is below the grain (BUG_ON).
gang_init(boot) ==
    LET min_period_4_be_doms == 100 * GANG_FINEST_TIME_GRAIN
        rsrv == IF boot.sched_gang_cpu_rsrv_4_be_doms
                      > MAX_CPU_RESERV_4_BE_DOMAINS
                   \/ boot.sched_gang_cpu_rsrv_4_be_doms
                      < MIN_CPU_RESERV_4_BE_DOMAINS
                THEN DEFAULT_CPU_RESERV_4_BE_DOMAINS
                ELSE boot.sched_gang_cpu_rsrv_4_be_doms
        period == IF boot.sched_gang_period_4_be_doms < min_period_4_be_doms
                  THEN min_period_4_be_doms
                  ELSE boot.sched_gang_period_4_be_doms
        quantum == (period * rsrv) \div 100
        adj == IF boot.sched_gang_adj_time_upper_bound
                     > MAX_ADJ_TIME_UPPER_BOUND
               THEN boot.sched_gang_adj_time_upper_bound
               ELSE IF boot.sched_gang_adj_time_upper_bound
                          < MIN_ADJ_TIME_UPPER_BOUND
               THEN DEFAULT_ADJ_TIME_UPPER_BOUND
               ELSE boot.sched_gang_adj_time_upper_bound
        timeout == (adj \div GANG_FINEST_TIME_GRAIN) \div 2
    IN  IF quantum < GANG_FINEST_TIME_GRAIN
        THEN [ status |-> "panic" ]
        ELSE [ status |-> "returned",
               period_4_be_doms |-> period,
               quantum_4_be_doms |-> quantum,
               adj_time_upper_bound |->
                   IF timeout < 1 THEN 2 * GANG_FINEST_TIME_GRAIN ELSE adj ]

\* Values of the boot-parameter variables: below, at and above the bounds.
BootValues ==
    { [ sched_gang_cpu_rsrv_4_be_doms |-> r,
        sched_gang_period_4_be_doms |-> p,
        sched_gang_adj_time_upper_bound |-> a ] :
        r \in { 0, 1, 10, 100, 101 },
        p \in { 0, 399, 400, 800 },
        a \in { 0, 4, 39, 40, 400, 2000, 2001, 4000 } }

InitBoot ==
    /\ InitSched
    /\ input \in BootValues
    /\ output = NoOutput

GangInit ==
    /\ output = NoOutput
    /\ output' = gang_init(input)
    /\ UNCHANGED << input, timeVars, domVars, topoVars, schedVars, cpuVars,
                    callVars, faultVars, adjVars >>

SpecBoot == InitBoot /\ [][GangInit]_vars

====
